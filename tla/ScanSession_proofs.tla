-------------------------- MODULE ScanSession_proofs --------------------------
(***************************************************************************)
(* Theorems about ScanSession, for every set of processes, regions, values *)
(* and comparisons.                                                        *)
(***************************************************************************)
EXTENDS SearchHistory, FiniteSetTheorems, TLAPS

-----------------------------------------------------------------------------
(* Partial functions.                                                      *)

\* A partial function is a function on its domain, and conversely.
LEMMA PartialElim ==
  ASSUME NEW f \in Partial(Addr, Val)
  PROVE  DOMAIN f \subseteq Addr /\ f \in [DOMAIN f -> Val]
BY DEF Partial

LEMMA PartialIntro ==
  ASSUME NEW D \in SUBSET Addr, NEW f \in [D -> Val]
  PROVE  f \in Partial(Addr, Val)
BY DEF Partial

\* The empty list of matches is one.
LEMMA PartialEmpty ==
  NoMatches \in Partial(Addr, Val) /\ DOMAIN NoMatches = {}
<1>1. NoMatches \in [{} -> Val] /\ DOMAIN NoMatches = {}
  BY DEF NoMatches
<1> QED BY <1>1, PartialIntro

\* Joining two keeps what the first one says.
LEMMA PartialJoin ==
  ASSUME NEW f \in Partial(Addr, Val), NEW g \in Partial(Addr, Val)
  PROVE  /\ Join(f, g) \in Partial(Addr, Val)
         /\ DOMAIN Join(f, g) = DOMAIN f \cup DOMAIN g
         /\ \A x \in DOMAIN f : Join(f, g)[x] = f[x]
         /\ \A x \in DOMAIN g \ DOMAIN f : Join(f, g)[x] = g[x]
<1>1. /\ DOMAIN f \subseteq Addr /\ f \in [DOMAIN f -> Val]
      /\ DOMAIN g \subseteq Addr /\ g \in [DOMAIN g -> Val]
  BY PartialElim
<1>2. Join(f, g) \in [DOMAIN f \cup DOMAIN g -> Val]
  BY <1>1 DEF Join
<1>3. Join(f, g) \in Partial(Addr, Val)
  BY <1>1, <1>2, PartialIntro
<1> QED BY <1>1, <1>3 DEF Join

\* Adding one value keeps the others.
LEMMA PartialWith ==
  ASSUME NEW f \in Partial(Addr, Val), NEW a \in Addr, NEW v \in Val
  PROVE  /\ With(f, a, v) \in Partial(Addr, Val)
         /\ DOMAIN With(f, a, v) = DOMAIN f \cup {a}
<1> DEFINE g == [x \in {a} |-> v]
<1>1. g \in [{a} -> Val] /\ DOMAIN g = {a}
  OBVIOUS
<1>2. g \in Partial(Addr, Val)
  BY <1>1, PartialIntro
<1>3. With(f, a, v) = Join(f, g)
  BY DEF With
<1> HIDE DEF g
<1>4. Join(f, g) \in Partial(Addr, Val) /\ DOMAIN Join(f, g) = DOMAIN f \cup DOMAIN g
  BY <1>2, PartialJoin
<1> QED BY <1>1, <1>3, <1>4

\* A part of a partial function is one.
LEMMA PartialRestrict ==
  ASSUME NEW f \in Partial(Addr, Val), NEW D \in SUBSET (DOMAIN f)
  PROVE  /\ Restrict(f, D) \in Partial(Addr, Val)
         /\ DOMAIN Restrict(f, D) = D
         /\ \A x \in D : Restrict(f, D)[x] = f[x]
<1>1. DOMAIN f \subseteq Addr /\ f \in [DOMAIN f -> Val]
  BY PartialElim
<1>2. Restrict(f, D) \in [D -> Val]
  BY <1>1 DEF Restrict
<1> QED BY <1>1, <1>2, PartialIntro DEF Restrict

-----------------------------------------------------------------------------
(* The inductive invariant.                                                *)

\* The worker of a next scan has split the list it took: what it has not
\* reached is still in the list, what it kept is elsewhere in it.
NextScanSplits ==
  (scanTask # NoTask /\ scanTask.op = "next")
    => /\ scanTask.todo \subseteq DOMAIN scanTask.base
       /\ DOMAIN scanTask.out \subseteq DOMAIN scanTask.base
       /\ scanTask.state # "sent" => DOMAIN scanTask.out \cap scanTask.todo = {}

IInv ==
  /\ TypeOK
  /\ NextScanSplits
  /\ NextScanFilters
  /\ OneScanAtATime
  /\ NothingOverwritten
  /\ ResultsAreScanned

-----------------------------------------------------------------------------
(* What one turn of each worker adds.                                      *)

\* A turn of any scan keeps its result a list of matches, and adds at most the
\* address it looked at.
LEMMA TurnType ==
  ASSUME ConstantsAssumption, TypeOK, NEW t \in ScanTask, NEW a \in t.todo,
         t.op = "next" => a \in DOMAIN t.base
  PROVE  /\ \A r \in {FirstFound(t, a), UnknownNextFound(t, a)} : r \in Partial(Addr, Val)
         /\ t.op = "next" => /\ NextKept(t, a) \in Partial(Addr, Val)
                             /\ DOMAIN NextKept(t, a) \subseteq DOMAIN t.out \cup {a}
<1>1. /\ a \in Addr /\ t.proc \in Proc
      /\ t.out \in Partial(Addr, Val) /\ t.base \in Partial(Addr, Val)
      /\ t.base \in [DOMAIN t.base -> Val]
  BY PartialElim DEF ScanTask
<1> DEFINE m == mem[t.proc][a]
<1>2. m \in Val \cup {Unmapped} /\ 0 \in Val
  BY <1>1 DEF TypeOK, ConstantsAssumption
<1>3. \A v \in Val : /\ With(t.out, a, v) \in Partial(Addr, Val)
                     /\ DOMAIN With(t.out, a, v) = DOMAIN t.out \cup {a}
  BY <1>1, PartialWith
<1>4. FirstFound(t, a) \in Partial(Addr, Val)
  <2>1. m # Unmapped => FirstLast(t.cmp, m) \in Val
    BY <1>2 DEF FirstLast
  <2> QED BY <1>1, <1>3, <2>1 DEF FirstFound
<1>5. UnknownNextFound(t, a) \in Partial(Addr, Val)
  <2>1. ZeroFilled(m) \in Val
    BY <1>2 DEF ZeroFilled
  <2> QED BY <1>1, <1>3, <2>1 DEF UnknownNextFound
<1>6. ASSUME t.op = "next"
      PROVE  /\ NextKept(t, a) \in Partial(Addr, Val)
             /\ DOMAIN NextKept(t, a) \subseteq DOMAIN t.out \cup {a}
  <2>1. m # Unmapped => NextLast(t.cmp, m, t.base[a]) \in Val
    BY <1>1, <1>2, <1>6 DEF NextLast
  <2> QED BY <1>1, <1>3, <2>1 DEF NextKept
<1> QED BY <1>4, <1>5, <1>6

\* The same for the snapshot.
LEMMA SnapshotTurnType ==
  ASSUME ConstantsAssumption, TypeOK, NEW t \in UnknownTask, NEW a \in t.todo
  PROVE  SnapshotTaken(t, a) \in Partial(Addr, Val)
<1>1. a \in Addr /\ t.proc \in Proc /\ t.out \in Partial(Addr, Val)
  BY DEF UnknownTask
<1> DEFINE m == mem[t.proc][a]
<1>2. m \in Val \cup {Unmapped}
  BY <1>1 DEF TypeOK
<1>3. \A v \in Val : With(t.out, a, v) \in Partial(Addr, Val)
  BY <1>1, PartialWith
<1> QED BY <1>1, <1>2, <1>3 DEF SnapshotTaken

\* What a next scan sends is what it kept and, below it, what it did not reach.
LEMMA SentFilters ==
  ASSUME NEW t \in ScanTask, t.op = "next",
         t.todo \subseteq DOMAIN t.base, DOMAIN t.out \subseteq DOMAIN t.base,
         DOMAIN t.out \cap t.todo = {}
  PROVE  /\ ScanResult(t) \in Partial(Addr, Val)
         /\ DOMAIN ScanResult(t) \subseteq DOMAIN t.base
         /\ IsRestriction(Restrict(t.base, t.todo), ScanResult(t))
<1> DEFINE rest == Restrict(t.base, t.todo)
<1>1. t.out \in Partial(Addr, Val) /\ t.base \in Partial(Addr, Val)
  BY DEF ScanTask
<1>2. /\ rest \in Partial(Addr, Val)
      /\ DOMAIN rest = t.todo
  BY <1>1, PartialRestrict
<1>3. ScanResult(t) = Join(t.out, rest)
  BY DEF ScanResult
<1> HIDE DEF rest
<1>4. /\ Join(t.out, rest) \in Partial(Addr, Val)
      /\ DOMAIN Join(t.out, rest) = DOMAIN t.out \cup DOMAIN rest
      /\ \A x \in DOMAIN rest \ DOMAIN t.out : Join(t.out, rest)[x] = rest[x]
  BY <1>1, <1>2, PartialJoin
<1>5. IsRestriction(rest, Join(t.out, rest))
  BY <1>2, <1>4 DEF IsRestriction
<1> QED BY <1>2, <1>3, <1>4, <1>5 DEF rest

-----------------------------------------------------------------------------
(* The invariant is inductive.                                             *)

\* A new scan task is well typed and, being without result, splits its list.
LEMMA NewScanType ==
  ASSUME ConstantsAssumption, TypeOK, attached # NoProc,
         NEW op \in {"first", "next", "unknown_next"}, NEW c \in Comparison,
         NEW base \in Partial(Addr, Val), NEW todo \in SUBSET Addr
  PROVE  NewScan(op, c, base, todo) \in ScanTask
BY PartialEmpty DEF NewScan, ScanTask, TypeOK

THEOREM InitInvariant == Init => IInv
<1> SUFFICES ASSUME Init PROVE IInv
  OBVIOUS
<1>1. TypeOK
  BY PartialEmpty DEF Init, TypeOK
<1> QED BY <1>1, PartialEmpty DEF Init, IInv, NextScanSplits, NextScanFilters, OneScanAtATime,
             NothingOverwritten, ResultsAreScanned

\* The actions of the buttons, one step each.
LEMMA UserInvariant == IInv /\ User => IInv'
<1> SUFFICES ASSUME IInv, User PROVE IInv'
  OBVIOUS
<1> USE ConstantsAssumption
<1> USE DEF IInv
<1>e. NoMatches \in Partial(Addr, Val) /\ DOMAIN NoMatches = {}
  BY PartialEmpty
<1>1. ASSUME NEW p \in Proc, Attach(p) PROVE IInv'
  <2>1. TypeOK'
    BY <1>1, <1>e DEF Attach, TypeOK
  <2> QED BY <1>1, <1>e, <2>1 DEF Attach, NextScanSplits, NextScanFilters, OneScanAtATime,
               NothingOverwritten, ResultsAreScanned
<1>2. ASSUME NEW c \in Comparison, FirstScan(c) PROVE IInv'
  <2>1. scanTask' \in ScanTask /\ scanTask'.op = "first"
    BY <1>2, <1>e, NewScanType DEF FirstScan, NewScan, Readable
  <2>2. TypeOK'
    BY <1>2, <1>e, <2>1 DEF FirstScan, TypeOK
  <2> QED BY <1>2, <1>e, <2>1, <2>2 DEF FirstScan, Scanning, NextScanSplits, NextScanFilters,
               OneScanAtATime, NothingOverwritten, ResultsAreScanned
<1>3. ASSUME NEW c \in Comparison, NextScan(c) PROVE IInv'
  <2>1. matches \in Partial(Addr, Val) /\ DOMAIN matches \subseteq Addr
    BY PartialElim DEF TypeOK
  <2>2. scanTask' \in ScanTask
    BY <1>3, <2>1, NewScanType DEF NextScan, NextEnabled
  <2>3. /\ scanTask'.base = matches /\ scanTask'.todo = DOMAIN matches
        /\ scanTask'.out = NoMatches /\ scanTask'.state = "running"
    BY <1>3 DEF NextScan, NewScan
  <2>4. TypeOK'
    BY <1>3, <1>e, <2>2 DEF NextScan, TypeOK
  <2> QED BY <1>3, <1>e, <2>3, <2>4 DEF NextScan, NextEnabled, Scanning, NextScanSplits,
               NextScanFilters, OneScanAtATime, NothingOverwritten, ResultsAreScanned
<1>4. ASSUME NEW c \in Comparison, UnknownNext(c) PROVE IInv'
  <2>1. snapshot \in Partial(Addr, Val) /\ DOMAIN snapshot \subseteq Addr
    BY <1>4, PartialElim DEF UnknownNext, TypeOK
  <2>2. scanTask' \in ScanTask /\ scanTask'.op = "unknown_next"
    BY <1>4, <2>1, NewScanType DEF UnknownNext, NextEnabled, NewScan
  <2>3. TypeOK'
    BY <1>4, <2>2 DEF UnknownNext, TypeOK
  <2> QED BY <1>4, <2>2, <2>3 DEF UnknownNext, NextEnabled, Scanning, NextScanSplits,
               NextScanFilters, OneScanAtATime, NothingOverwritten, ResultsAreScanned
<1>5. ASSUME UnknownFirst PROVE IInv'
  <2>1. unknownTask' \in UnknownTask
    BY <1>5, <1>e DEF UnknownFirst, UnknownTask, Readable, TypeOK
  <2>2. TypeOK'
    BY <1>5, <1>e, <2>1 DEF UnknownFirst, TypeOK
  <2> QED BY <1>5, <1>e, <2>2 DEF UnknownFirst, Scanning, NextScanSplits, NextScanFilters,
               OneScanAtATime, NothingOverwritten, ResultsAreScanned
<1>6. ASSUME NewSearch PROVE IInv'
  <2>1. TypeOK'
    BY <1>6, <1>e DEF NewSearch, TypeOK
  <2> QED BY <1>6, <1>e, <2>1 DEF NewSearch, Scanning, NextScanSplits, NextScanFilters,
               OneScanAtATime, NothingOverwritten, ResultsAreScanned
<1>7. ASSUME CancelScan PROVE IInv'
  <2>1. scanTask \in ScanTask /\ scanTask' = [scanTask EXCEPT !.cancel = TRUE]
    BY <1>7 DEF CancelScan, TypeOK
  <2>2. /\ scanTask' \in ScanTask
        /\ scanTask'.op = scanTask.op /\ scanTask'.todo = scanTask.todo
        /\ scanTask'.base = scanTask.base /\ scanTask'.out = scanTask.out
        /\ scanTask'.state = scanTask.state
    BY <2>1 DEF ScanTask
  <2>3. TypeOK'
    BY <1>7, <2>2 DEF CancelScan, app, TypeOK
  <2> QED BY <1>7, <2>2, <2>3 DEF CancelScan, app, NextScanSplits, NextScanFilters,
               OneScanAtATime, NothingOverwritten, ResultsAreScanned
<1>8. ASSUME CancelUnknown PROVE IInv'
  <2>1. unknownTask' \in UnknownTask
    BY <1>8 DEF CancelUnknown, UnknownTask, TypeOK
  <2>2. TypeOK'
    BY <1>8, <2>1 DEF CancelUnknown, app, TypeOK
  <2> QED BY <1>8, <2>2 DEF CancelUnknown, app, NextScanSplits, NextScanFilters,
               OneScanAtATime, NothingOverwritten, ResultsAreScanned
<1> QED BY <1>1, <1>2, <1>3, <1>4, <1>5, <1>6, <1>7, <1>8 DEF User

\* A turn of a worker's loop, for any of the three kinds of scan.
LEMMA ScanTurnInvariant ==
  ASSUME IInv, Running(scanTask), NEW a \in scanTask.todo, NEW r \in Partial(Addr, Val),
         scanTask.op = "next" => DOMAIN r \subseteq DOMAIN scanTask.out \cup {a},
         scanTask' = [scanTask EXCEPT !.todo = @ \ {a}, !.out = r],
         UNCHANGED <<mem, app, unknownTask, touched>>
  PROVE  IInv'
<1> USE DEF IInv
<1>1. scanTask # NoTask /\ scanTask \in ScanTask /\ scanTask.state = "running"
  BY DEF Running, TypeOK
<1>2. /\ scanTask' \in ScanTask
      /\ scanTask'.op = scanTask.op /\ scanTask'.base = scanTask.base
      /\ scanTask'.todo = scanTask.todo \ {a} /\ scanTask'.out = r
      /\ scanTask'.state = "running"
  BY <1>1 DEF ScanTask
<1>3. TypeOK'
  BY <1>2 DEF TypeOK, app
<1>4. scanTask'.op = "next" => /\ scanTask'.todo \subseteq DOMAIN scanTask'.base
                               /\ DOMAIN scanTask'.out \subseteq DOMAIN scanTask'.base
                               /\ DOMAIN scanTask'.out \cap scanTask'.todo = {}
  BY <1>1, <1>2 DEF NextScanSplits
<1> QED BY <1>1, <1>2, <1>3, <1>4 DEF app, NextScanSplits, NextScanFilters, OneScanAtATime,
             NothingOverwritten, ResultsAreScanned

\* The worker of the scan task.
LEMMA ScanWorkerInvariant == IInv /\ ScanWorker => IInv'
<1> SUFFICES ASSUME IInv, ScanWorker PROVE IInv'
  OBVIOUS
<1> USE ConstantsAssumption
<1>1. TypeOK /\ Running(scanTask) /\ scanTask # NoTask /\ scanTask \in ScanTask
  BY DEF IInv, ScanWorker, FirstScanTurn, NextScanTurn, UnknownNextTurn, ScanTurn, ScanSend,
         Running, TypeOK
<1>2. scanTask.op = "next" => scanTask.todo \subseteq DOMAIN scanTask.base
  BY <1>1 DEF IInv, NextScanSplits
<1>3. CASE FirstScanTurn
  <2>1. PICK a \in scanTask.todo :
          scanTask' = [scanTask EXCEPT !.todo = @ \ {a}, !.out = FirstFound(scanTask, a)]
    BY <1>3 DEF FirstScanTurn, ScanTurn
  <2>2. FirstFound(scanTask, a) \in Partial(Addr, Val) /\ scanTask.op # "next"
    BY <1>1, <1>3, TurnType DEF FirstScanTurn, ScanTurn
  <2>3. UNCHANGED <<mem, app, unknownTask, touched>>
    BY <1>3 DEF FirstScanTurn, ScanTurn
  <2> QED BY <1>1, <2>1, <2>2, <2>3, ScanTurnInvariant
<1>4. CASE NextScanTurn
  <2>1. PICK a \in scanTask.todo :
          scanTask' = [scanTask EXCEPT !.todo = @ \ {a}, !.out = NextKept(scanTask, a)]
    BY <1>4 DEF NextScanTurn, ScanTurn
  <2>2. scanTask.op = "next" /\ a \in DOMAIN scanTask.base
    BY <1>2, <1>4 DEF NextScanTurn, ScanTurn
  <2>3. /\ NextKept(scanTask, a) \in Partial(Addr, Val)
        /\ DOMAIN NextKept(scanTask, a) \subseteq DOMAIN scanTask.out \cup {a}
    BY <1>1, <2>2, TurnType
  <2>4. UNCHANGED <<mem, app, unknownTask, touched>>
    BY <1>4 DEF NextScanTurn, ScanTurn
  <2> QED BY <1>1, <2>1, <2>3, <2>4, ScanTurnInvariant
<1>5. CASE UnknownNextTurn
  <2>1. PICK a \in scanTask.todo :
          scanTask' = [scanTask EXCEPT !.todo = @ \ {a}, !.out = UnknownNextFound(scanTask, a)]
    BY <1>5 DEF UnknownNextTurn, ScanTurn
  <2>2. UnknownNextFound(scanTask, a) \in Partial(Addr, Val) /\ scanTask.op # "next"
    BY <1>1, <1>5, TurnType DEF UnknownNextTurn, ScanTurn
  <2>3. UNCHANGED <<mem, app, unknownTask, touched>>
    BY <1>5 DEF UnknownNextTurn, ScanTurn
  <2> QED BY <1>1, <2>1, <2>2, <2>3, ScanTurnInvariant
<1>6. CASE ScanSend
  <2>1. ScanResult(scanTask) \in Partial(Addr, Val)
    <3>1. CASE scanTask.op = "next"
      BY <1>1, <3>1, SentFilters DEF IInv, NextScanSplits, Running
    <3>2. CASE scanTask.op # "next"
      BY <1>1, <3>2 DEF ScanResult, ScanTask
    <3> QED BY <3>1, <3>2
  <2>2. /\ scanTask' \in ScanTask
        /\ scanTask'.op = scanTask.op /\ scanTask'.base = scanTask.base
        /\ scanTask'.todo = scanTask.todo /\ scanTask'.out = ScanResult(scanTask)
        /\ scanTask'.state = "sent"
    BY <1>1, <1>6, <2>1 DEF ScanSend, ScanTask
  <2>3. TypeOK'
    BY <1>1, <1>6, <2>2 DEF ScanSend, TypeOK, app
  <2>4. scanTask.op = "next" =>
          /\ DOMAIN ScanResult(scanTask) \subseteq DOMAIN scanTask.base
          /\ IsRestriction(Restrict(scanTask.base, scanTask.todo), ScanResult(scanTask))
    BY <1>1, SentFilters DEF IInv, NextScanSplits, Running
  <2>5. NextScanSplits' /\ NextScanFilters'
    BY <1>2, <2>2, <2>4 DEF NextScanSplits, NextScanFilters
  <2> QED BY <1>1, <1>6, <2>2, <2>3, <2>5 DEF ScanSend, app, IInv, OneScanAtATime,
               NothingOverwritten, ResultsAreScanned
<1> QED BY <1>3, <1>4, <1>5, <1>6 DEF ScanWorker

\* The worker of the snapshot.
LEMMA UnknownWorkerInvariant == IInv /\ UnknownWorker => IInv'
<1> SUFFICES ASSUME IInv, UnknownWorker PROVE IInv'
  OBVIOUS
<1> USE ConstantsAssumption
<1>1. TypeOK /\ unknownTask # NoTask /\ unknownTask \in UnknownTask
  BY DEF IInv, UnknownWorker, SnapshotTurn, SnapshotSend, Running, TypeOK
<1>2. unknownTask' \in UnknownTask
  <2>1. CASE SnapshotTurn
    <3>1. PICK a \in unknownTask.todo :
            unknownTask' = [unknownTask EXCEPT !.todo = @ \ {a},
                                               !.out = SnapshotTaken(unknownTask, a)]
      BY <2>1 DEF SnapshotTurn
    <3>2. SnapshotTaken(unknownTask, a) \in Partial(Addr, Val)
      BY <1>1, SnapshotTurnType
    <3> QED BY <1>1, <3>1, <3>2 DEF UnknownTask
  <2>2. CASE SnapshotSend
    BY <1>1, <2>2 DEF SnapshotSend, UnknownTask
  <2> QED BY <2>1, <2>2 DEF UnknownWorker
<1>3. UNCHANGED <<mem, app, scanTask, touched>>
  BY DEF UnknownWorker, SnapshotTurn, SnapshotSend
<1>4. TypeOK'
  BY <1>1, <1>2, <1>3 DEF TypeOK, app
<1> QED BY <1>1, <1>3, <1>4 DEF app, IInv, NextScanSplits, NextScanFilters, OneScanAtATime,
             NothingOverwritten, ResultsAreScanned

\* Collecting a result: the one place where the list is refilled.
LEMMA PollInvariant == IInv /\ (PollScanTask \/ PollUnknownTask) => IInv'
<1> SUFFICES ASSUME IInv, PollScanTask \/ PollUnknownTask PROVE IInv'
  OBVIOUS
<1> USE ConstantsAssumption
<1> USE DEF IInv
<1>e. NoMatches \in Partial(Addr, Val) /\ DOMAIN NoMatches = {}
  BY PartialEmpty
<1>1. CASE PollScanTask
  <2>1. scanTask \in ScanTask /\ scanTask.out \in Partial(Addr, Val)
    BY <1>1 DEF PollScanTask, TypeOK, ScanTask
  <2>2. TypeOK'
    BY <1>1, <2>1 DEF PollScanTask, TypeOK
  <2> QED BY <1>1, <2>2 DEF PollScanTask, NextScanSplits, NextScanFilters, OneScanAtATime,
               NothingOverwritten, ResultsAreScanned
<1>2. CASE PollUnknownTask
  <2>1. unknownTask \in UnknownTask /\ unknownTask.out \in Partial(Addr, Val)
    BY <1>2 DEF PollUnknownTask, TypeOK, UnknownTask
  <2>2. TypeOK'
    BY <1>2, <1>e, <2>1 DEF PollUnknownTask, TypeOK
  <2>3. scanTask = NoTask
    BY <1>2 DEF PollUnknownTask, OneScanAtATime
  <2> QED BY <1>2, <1>e, <2>2, <2>3 DEF PollUnknownTask, NextScanSplits, NextScanFilters,
               OneScanAtATime, NothingOverwritten, ResultsAreScanned
<1> QED BY <1>1, <1>2

\* What the processes and a dying worker do leaves the session's lists alone.
LEMMA EnvironmentInvariant == IInv /\ Environment => IInv'
<1> SUFFICES ASSUME IInv, Environment PROVE IInv'
  OBVIOUS
<1> USE DEF IInv
<1>1. ASSUME NEW p \in Proc, NEW a \in Addr, NEW v \in Val \cup {Unmapped},
             ProcessWrites(p, a, v)
      PROVE  IInv'
  <2>1. mem' \in [Proc -> [Addr -> Val \cup {Unmapped}]]
    BY <1>1 DEF ProcessWrites, TypeOK
  <2>2. touched' \in BOOLEAN
    BY <1>1 DEF ProcessWrites, TypeOK
  <2>3. TypeOK'
    BY <1>1, <2>1, <2>2 DEF ProcessWrites, TypeOK, app
  <2> QED BY <1>1, <2>3 DEF ProcessWrites, app, NextScanSplits, NextScanFilters, OneScanAtATime,
               NothingOverwritten, ResultsAreScanned
<1>2. CASE WorkerDies
  <2>1. CASE Running(scanTask) /\ scanTask' = [scanTask EXCEPT !.state = "died"]
             /\ UNCHANGED unknownTask
    <3>1. scanTask # NoTask /\ scanTask \in ScanTask /\ scanTask.state = "running"
      BY <2>1 DEF Running, TypeOK
    <3>2. /\ scanTask' \in ScanTask
          /\ scanTask'.op = scanTask.op /\ scanTask'.todo = scanTask.todo
          /\ scanTask'.base = scanTask.base /\ scanTask'.out = scanTask.out
          /\ scanTask'.state = "died"
      BY <2>1, <3>1 DEF ScanTask
    <3>3. TypeOK'
      BY <1>2, <2>1, <3>2 DEF WorkerDies, TypeOK, app
    <3> QED BY <1>2, <2>1, <3>1, <3>2, <3>3 DEF WorkerDies, app, NextScanSplits, NextScanFilters,
                 OneScanAtATime, NothingOverwritten, ResultsAreScanned
  <2>2. CASE Running(unknownTask) /\ unknownTask' = [unknownTask EXCEPT !.state = "died"]
             /\ UNCHANGED scanTask
    <3>1. unknownTask # NoTask /\ unknownTask' \in UnknownTask
      BY <2>2 DEF Running, TypeOK, UnknownTask
    <3>2. TypeOK'
      BY <1>2, <2>2, <3>1 DEF WorkerDies, TypeOK, app
    <3> QED BY <1>2, <2>2, <3>1, <3>2 DEF WorkerDies, app, NextScanSplits, NextScanFilters,
                 OneScanAtATime, NothingOverwritten, ResultsAreScanned
  <2> QED BY <1>2, <2>1, <2>2 DEF WorkerDies
<1> QED BY <1>1, <1>2 DEF Environment

\* Every step keeps the invariant.
THEOREM NextInvariant == IInv /\ [Next]_vars => IInv'
<1> SUFFICES ASSUME IInv, [Next]_vars PROVE IInv'
  OBVIOUS
<1>1. CASE UNCHANGED vars
  BY <1>1 DEF vars, IInv, TypeOK, NextScanSplits, NextScanFilters, OneScanAtATime,
              NothingOverwritten, ResultsAreScanned
<1>2. CASE Next
  BY <1>2, UserInvariant, ScanWorkerInvariant, UnknownWorkerInvariant, PollInvariant,
     EnvironmentInvariant DEF Next
<1> QED BY <1>1, <1>2

THEOREM Invariance == Spec => []IInv
<1>1. Init => IInv
  BY InitInvariant
<1>2. IInv /\ [Next]_vars => IInv'
  BY NextInvariant
<1> QED BY <1>1, <1>2, PTL DEF Spec

-----------------------------------------------------------------------------
(* The results.                                                            *)

\* The state of the session (App's scan fields, the tasks and their workers)
\* keeps its types: no handler of main.rs and no worker of scan.rs leaves them.
THEOREM TypeCorrect == Spec => []TypeOK
<1>1. IInv => TypeOK
  BY DEF IInv
<1> QED BY <1>1, Invariance, PTL

\* The grey buttons of scan_panel are enough to keep one scan at a time,
\* although do_first_scan itself looks at one of the two tasks only.
THEOREM OneScan == Spec => []OneScanAtATime
<1>1. IInv => OneScanAtATime
  BY DEF IInv
<1> QED BY <1>1, Invariance, PTL

\* next_scan_job and next_scan_string_job only ever filter the list they were
\* given, and lose nothing of what a cancel kept them from reaching.
THEOREM NextScansFilter == Spec => []NextScanFilters
<1>1. IInv => NextScanFilters
  BY DEF IInv
<1> QED BY <1>1, Invariance, PTL

\* While the list is with a worker nothing else gets into its place, so that
\* poll_scan_task overwrites an empty list.
THEOREM ResultsNotOverwritten == Spec => [](NothingOverwritten /\ ResultsAreScanned)
<1>1. IInv => NothingOverwritten /\ ResultsAreScanned
  BY DEF IInv
<1> QED BY <1>1, Invariance, PTL

-----------------------------------------------------------------------------
(* What the scans deliver: on memory that stands still, the turns of a     *)
(* worker's loop add up to the scan of the whole memory. The scan a task   *)
(* stands for, address by address, on memory m:                            *)

\* The addresses a scan goes over.
Candidates(t) == IF t.op = "first" THEN Addr ELSE DOMAIN t.base

Passes(m, t, a) ==
  IF t.op = "unknown_next"
  THEN Compare(t.cmp, ZeroFilled(m[a]), t.base[a])
  ELSE m[a] # Unmapped /\ Compare(t.cmp, m[a], IF t.op = "first" THEN 0 ELSE t.base[a])

LastSeen(m, t, a) ==
  IF t.op = "unknown_next" THEN ZeroFilled(m[a])
  ELSE IF t.op = "first" THEN FirstLast(t.cmp, m[a])
  ELSE NextLast(t.cmp, m[a], t.base[a])

Should(m, t) == [a \in {b \in Candidates(t) : Passes(m, t, b)} |-> LastSeen(m, t, a)]

\* The loop's invariant: what is behind it was judged as it should.
CorrectSoFar(m, t) ==
  /\ t.todo \subseteq Candidates(t)
  /\ DOMAIN t.out = {a \in Candidates(t) \ t.todo : Passes(m, t, a)}
  /\ \A a \in DOMAIN t.out : t.out[a] = LastSeen(m, t, a)

Contents == [Addr -> Val \cup {Unmapped}]

\* Expected says the same with one function for each kind of scan.
LEMMA ExpectedIsShould ==
  ASSUME NEW t \in ScanTask
  PROVE  Expected(t) = Should(mem[t.proc], t)
<1>1. t.op \in {"first", "next", "unknown_next"}
  BY DEF ScanTask
<1> DEFINE m == mem[t.proc]
<1>2. CASE t.op = "first"
  <2>1. Expected(t) = [a \in {b \in Addr : m[b] # Unmapped /\ Compare(t.cmp, m[b], 0)} |->
                         FirstLast(t.cmp, m[a])]
    BY <1>2 DEF Expected
  <2>2. {b \in Addr : m[b] # Unmapped /\ Compare(t.cmp, m[b], 0)}
          = {b \in Candidates(t) : Passes(m, t, b)}
    BY <1>2 DEF Candidates, Passes
  <2>3. \A a : LastSeen(m, t, a) = FirstLast(t.cmp, m[a])
    BY <1>2 DEF LastSeen
  <2> QED BY <2>1, <2>2, <2>3 DEF Should
<1>3. CASE t.op = "next"
  <2>1. Expected(t) =
          [a \in {b \in DOMAIN t.base : m[b] # Unmapped /\ Compare(t.cmp, m[b], t.base[b])} |->
             NextLast(t.cmp, m[a], t.base[a])]
    BY <1>3 DEF Expected, NextLast
  <2>2. {b \in DOMAIN t.base : m[b] # Unmapped /\ Compare(t.cmp, m[b], t.base[b])}
          = {b \in Candidates(t) : Passes(m, t, b)}
    BY <1>3 DEF Candidates, Passes
  <2>3. \A a : LastSeen(m, t, a) = NextLast(t.cmp, m[a], t.base[a])
    BY <1>3 DEF LastSeen
  <2> QED BY <2>1, <2>2, <2>3 DEF Should
<1>4. CASE t.op = "unknown_next"
  <2>1. Expected(t) =
          [a \in {b \in DOMAIN t.base : Compare(t.cmp, ZeroFilled(m[b]), t.base[b])} |->
             ZeroFilled(m[a])]
    BY <1>4 DEF Expected
  <2>2. {b \in DOMAIN t.base : Compare(t.cmp, ZeroFilled(m[b]), t.base[b])}
          = {b \in Candidates(t) : Passes(m, t, b)}
    BY <1>4 DEF Candidates, Passes
  <2>3. \A a : LastSeen(m, t, a) = ZeroFilled(m[a])
    BY <1>4 DEF LastSeen
  <2> QED BY <2>1, <2>2, <2>3 DEF Should
<1> QED BY <1>1, <1>2, <1>3, <1>4

\* A new task has nothing behind it that could pass: a first scan leaves out
\* only what cannot be read, the others leave out nothing.
LEMMA NewScanCorrect ==
  ASSUME NEW m \in Contents, NEW op \in {"first", "next", "unknown_next"}, NEW c,
         NEW base \in Partial(Addr, Val), NEW todo \in SUBSET Addr,
         IF op = "first" THEN todo = {a \in Addr : m[a] # Unmapped} ELSE todo = DOMAIN base
  PROVE  CorrectSoFar(m, NewScan(op, c, base, todo))
<1> DEFINE t == NewScan(op, c, base, todo)
<1>1. /\ t.op = op /\ t.todo = todo /\ t.base = base
      /\ t.out = NoMatches /\ DOMAIN t.out = {}
  BY PartialEmpty DEF NewScan
<1>2. todo \subseteq Candidates(t)
  BY <1>1 DEF Candidates
<1>3. \A a \in Candidates(t) \ todo : ~Passes(m, t, a)
  BY <1>1 DEF Candidates, Passes
<1> QED BY <1>1, <1>2, <1>3 DEF CorrectSoFar

\* One turn: the address it looks at joins those that were judged.
LEMMA TurnCorrect ==
  ASSUME ConstantsAssumption, NEW m \in Contents, NEW t \in ScanTask, NEW a \in t.todo,
         CorrectSoFar(m, t), NEW u \in ScanTask,
         u.op = t.op, u.cmp = t.cmp, u.base = t.base, u.todo = t.todo \ {a},
         u.out = IF Passes(m, t, a) THEN With(t.out, a, LastSeen(m, t, a)) ELSE t.out
  PROVE  CorrectSoFar(m, u)
<1>1. /\ Candidates(u) = Candidates(t)
      /\ \A b : Passes(m, u, b) = Passes(m, t, b)
      /\ \A b : LastSeen(m, u, b) = LastSeen(m, t, b)
  BY DEF Candidates, Passes, LastSeen
<1>2. a \in Candidates(t) /\ a \notin DOMAIN t.out
  BY DEF CorrectSoFar
<1>3. CASE Passes(m, t, a)
  <2>1. u.out = [x \in DOMAIN t.out \cup {a} |->
                   IF x \in DOMAIN t.out THEN t.out[x] ELSE LastSeen(m, t, a)]
    <3>1. u.out = With(t.out, a, LastSeen(m, t, a))
      BY <1>3
    <3> QED BY <3>1 DEF With, Join
  <2>2. DOMAIN u.out = DOMAIN t.out \cup {a}
    BY <2>1
  <2>3. DOMAIN u.out = {b \in Candidates(t) \ u.todo : Passes(m, t, b)}
    BY <1>2, <1>3, <2>2 DEF CorrectSoFar
  <2>4. \A b \in DOMAIN u.out : u.out[b] = LastSeen(m, t, b)
    BY <1>2, <2>1, <2>2 DEF CorrectSoFar
  <2> QED BY <1>1, <2>3, <2>4 DEF CorrectSoFar
<1>4. CASE ~Passes(m, t, a)
  <2>1. u.out = t.out
    BY <1>4
  <2>2. DOMAIN u.out = {b \in Candidates(t) \ u.todo : Passes(m, t, b)}
    BY <1>2, <1>4, <2>1 DEF CorrectSoFar
  <2> QED BY <1>1, <2>1, <2>2 DEF CorrectSoFar
<1> QED BY <1>3, <1>4

\* At the end of the loop the result is what it should be, and a next scan's
\* worker has nothing left to append.
LEMMA EndCorrect ==
  ASSUME NEW m \in Contents, NEW t \in ScanTask, CorrectSoFar(m, t), t.todo = {}
  PROVE  ScanResult(t) = Should(m, t)
<1>1. t.out \in [DOMAIN t.out -> Val] /\ t.out = [a \in DOMAIN t.out |-> t.out[a]]
  BY PartialElim DEF ScanTask
<1>2. t.out = Should(m, t)
  <2>1. DOMAIN t.out = {b \in Candidates(t) : Passes(m, t, b)}
    BY DEF CorrectSoFar
  <2>2. \A a \in DOMAIN t.out : t.out[a] = LastSeen(m, t, a)
    BY DEF CorrectSoFar
  <2> QED BY <1>1, <2>1, <2>2 DEF Should
<1>3. Join(t.out, Restrict(t.base, t.todo)) = t.out
  <2>1. DOMAIN Restrict(t.base, t.todo) = {}
    BY DEF Restrict
  <2>2. Join(t.out, Restrict(t.base, t.todo)) = [a \in DOMAIN t.out |-> t.out[a]]
    BY <2>1 DEF Join
  <2> QED BY <1>1, <2>2
<1> QED BY <1>2, <1>3 DEF ScanResult

-----------------------------------------------------------------------------
(* The strengthened invariant of the scan task.                            *)

ScanCorrect ==
  (scanTask # NoTask /\ ~touched)
    => LET m == mem[scanTask.proc]
       IN /\ scanTask.state = "running" => CorrectSoFar(m, scanTask)
          /\ scanTask.state = "sent" /\ ~scanTask.cancel => scanTask.out = Should(m, scanTask)

\* Starting a scan: the worker's task is new and nothing was written since.
LEMMA StartCorrect ==
  ASSUME ConstantsAssumption, IInv, attached # NoProc,
         NEW c \in Comparison,
         FirstScan(c) \/ NextScan(c) \/ UnknownNext(c)
  PROVE  ScanCorrect'
<1>1. attached \in Proc /\ mem[attached] \in Contents
  BY DEF IInv, TypeOK, Contents
<1>2. CASE FirstScan(c)
  <2>1. scanTask' = NewScan("first", c, NoMatches, Readable(attached)) /\ mem' = mem
    BY <1>2 DEF FirstScan
  <2>2. CorrectSoFar(mem[attached], scanTask')
    BY <1>1, <2>1, PartialEmpty, NewScanCorrect DEF Readable
  <2>3. scanTask'.proc = attached /\ scanTask'.state = "running"
    BY <2>1 DEF NewScan
  <2> QED BY <2>1, <2>2, <2>3 DEF ScanCorrect
<1>3. CASE NextScan(c)
  <2>1. scanTask' = NewScan("next", c, matches, DOMAIN matches) /\ mem' = mem
    BY <1>3 DEF NextScan
  <2>2. matches \in Partial(Addr, Val) /\ DOMAIN matches \subseteq Addr
    BY PartialElim DEF IInv, TypeOK
  <2>3. CorrectSoFar(mem[attached], scanTask')
    BY <1>1, <2>1, <2>2, NewScanCorrect
  <2>4. scanTask'.proc = attached /\ scanTask'.state = "running"
    BY <2>1 DEF NewScan
  <2> QED BY <2>1, <2>3, <2>4 DEF ScanCorrect
<1>4. CASE UnknownNext(c)
  <2>1. scanTask' = NewScan("unknown_next", c, snapshot, DOMAIN snapshot) /\ mem' = mem
    BY <1>4 DEF UnknownNext
  <2>2. snapshot \in Partial(Addr, Val) /\ DOMAIN snapshot \subseteq Addr
    BY <1>4, PartialElim DEF UnknownNext, IInv, TypeOK
  <2>3. CorrectSoFar(mem[attached], scanTask')
    BY <1>1, <2>1, <2>2, NewScanCorrect
  <2>4. scanTask'.proc = attached /\ scanTask'.state = "running"
    BY <2>1 DEF NewScan
  <2> QED BY <2>1, <2>3, <2>4 DEF ScanCorrect
<1> QED BY <1>2, <1>3, <1>4

\* A turn of any of the three loops.
LEMMA WorkerTurnCorrect ==
  ASSUME ConstantsAssumption, TypeOK, Running(scanTask), ScanCorrect,
         NEW a \in scanTask.todo, NEW r \in Partial(Addr, Val),
         r = IF Passes(mem[scanTask.proc], scanTask, a)
             THEN With(scanTask.out, a, LastSeen(mem[scanTask.proc], scanTask, a))
             ELSE scanTask.out,
         scanTask' = [scanTask EXCEPT !.todo = @ \ {a}, !.out = r],
         UNCHANGED <<mem, touched>>
  PROVE  ScanCorrect'
<1>1. scanTask # NoTask /\ scanTask \in ScanTask /\ scanTask.state = "running"
  BY DEF Running, TypeOK
<1>2. scanTask.proc \in Proc /\ mem[scanTask.proc] \in Contents
  BY <1>1 DEF TypeOK, ScanTask, Contents
<1> SUFFICES ASSUME ~touched PROVE ScanCorrect'
  BY DEF ScanCorrect
<1> DEFINE m == mem[scanTask.proc]
<1>3. CorrectSoFar(m, scanTask)
  BY <1>1 DEF ScanCorrect
<1>4. /\ scanTask' \in ScanTask
      /\ scanTask'.op = scanTask.op /\ scanTask'.cmp = scanTask.cmp
      /\ scanTask'.base = scanTask.base /\ scanTask'.todo = scanTask.todo \ {a}
      /\ scanTask'.proc = scanTask.proc /\ scanTask'.state = "running"
      /\ scanTask'.out = r
  <2>1. scanTask.todo \ {a} \in SUBSET Addr
    BY <1>1 DEF ScanTask
  <2>2. DOMAIN scanTask' = DOMAIN scanTask
    OBVIOUS
  <2> QED BY <1>1, <2>1 DEF ScanTask
<1>5. CorrectSoFar(m, scanTask')
  <2>1. m \in Contents
    BY <1>2
  <2>2. scanTask'.out = IF Passes(m, scanTask, a)
                        THEN With(scanTask.out, a, LastSeen(m, scanTask, a)) ELSE scanTask.out
    BY <1>4
  <2> HIDE DEF m
  <2>3. ASSUME NEW t \in ScanTask, t = scanTask, NEW u \in ScanTask, u = scanTask'
        PROVE  CorrectSoFar(m, u)
    <3>1. /\ a \in t.todo /\ CorrectSoFar(m, t) /\ u.op = t.op /\ u.cmp = t.cmp
          /\ u.base = t.base /\ u.todo = t.todo \ {a}
          /\ u.out = IF Passes(m, t, a) THEN With(t.out, a, LastSeen(m, t, a)) ELSE t.out
      BY <1>3, <1>4, <2>2, <2>3
    <3> QED BY <2>1, <3>1, TurnCorrect
  <2> QED BY <1>1, <1>4, <2>3
<1> QED BY <1>1, <1>4, <1>5 DEF ScanCorrect

\* The worker: its three loops, and their end.
LEMMA WorkCorrect ==
  ASSUME ConstantsAssumption, IInv, ScanCorrect, ScanWorker
  PROVE  ScanCorrect'
<1>1. /\ TypeOK /\ Running(scanTask)
      /\ scanTask # NoTask /\ scanTask \in ScanTask /\ scanTask.state = "running"
      /\ UNCHANGED <<mem, touched>>
  BY DEF IInv, TypeOK, ScanWorker, FirstScanTurn, NextScanTurn, UnknownNextTurn, ScanTurn,
         ScanSend, Running
<1> DEFINE m == mem[scanTask.proc]
<1>2. CASE FirstScanTurn
  <2>1. PICK a \in scanTask.todo :
          scanTask' = [scanTask EXCEPT !.todo = @ \ {a}, !.out = FirstFound(scanTask, a)]
    BY <1>2 DEF FirstScanTurn, ScanTurn
  <2>2. scanTask.op = "first"
    BY <1>2 DEF FirstScanTurn, ScanTurn
  <2>3. FirstFound(scanTask, a) \in Partial(Addr, Val)
    BY <1>1, <2>2, TurnType
  <2>4. FirstFound(scanTask, a) = IF Passes(m, scanTask, a)
                                  THEN With(scanTask.out, a, LastSeen(m, scanTask, a))
                                  ELSE scanTask.out
    BY <2>2 DEF FirstFound, Passes, LastSeen
  <2> QED BY <1>1, <2>1, <2>3, <2>4, WorkerTurnCorrect
<1>3. CASE NextScanTurn
  <2>1. PICK a \in scanTask.todo :
          scanTask' = [scanTask EXCEPT !.todo = @ \ {a}, !.out = NextKept(scanTask, a)]
    BY <1>3 DEF NextScanTurn, ScanTurn
  <2>2. scanTask.op = "next" /\ a \in DOMAIN scanTask.base
    BY <1>1, <1>3 DEF NextScanTurn, ScanTurn, IInv, NextScanSplits
  <2>3. NextKept(scanTask, a) \in Partial(Addr, Val)
    BY <1>1, <2>2, TurnType
  <2>4. NextKept(scanTask, a) = IF Passes(m, scanTask, a)
                                THEN With(scanTask.out, a, LastSeen(m, scanTask, a))
                                ELSE scanTask.out
    BY <2>2 DEF NextKept, Passes, LastSeen
  <2> QED BY <1>1, <2>1, <2>3, <2>4, WorkerTurnCorrect
<1>4. CASE UnknownNextTurn
  <2>1. PICK a \in scanTask.todo :
          scanTask' = [scanTask EXCEPT !.todo = @ \ {a}, !.out = UnknownNextFound(scanTask, a)]
    BY <1>4 DEF UnknownNextTurn, ScanTurn
  <2>2. scanTask.op = "unknown_next"
    BY <1>4 DEF UnknownNextTurn, ScanTurn
  <2>3. UnknownNextFound(scanTask, a) \in Partial(Addr, Val)
    BY <1>1, <2>2, TurnType
  <2>4. UnknownNextFound(scanTask, a) = IF Passes(m, scanTask, a)
                                        THEN With(scanTask.out, a, LastSeen(m, scanTask, a))
                                        ELSE scanTask.out
    BY <2>2 DEF UnknownNextFound, Passes, LastSeen
  <2> QED BY <1>1, <2>1, <2>3, <2>4, WorkerTurnCorrect
<1>5. CASE ScanSend
  <2> SUFFICES ASSUME ~touched, ~scanTask.cancel PROVE ScanCorrect'
    BY <1>1, <1>5 DEF ScanCorrect, ScanSend, ScanTask
  <2>1. scanTask.todo = {} /\ CorrectSoFar(m, scanTask)
    BY <1>1, <1>5 DEF ScanSend, ScanCorrect
  <2>2. scanTask.proc \in Proc /\ m \in Contents
    BY <1>1 DEF TypeOK, ScanTask, Contents
  <2>3. ScanResult(scanTask) = Should(m, scanTask)
    BY <1>1, <2>1, <2>2, EndCorrect
  <2>4. /\ scanTask'.op = scanTask.op /\ scanTask'.cmp = scanTask.cmp
        /\ scanTask'.base = scanTask.base /\ scanTask'.proc = scanTask.proc
        /\ scanTask'.state = "sent" /\ scanTask'.out = ScanResult(scanTask)
    BY <1>1, <1>5 DEF ScanSend, ScanTask
  <2>5. Should(m, scanTask') = Should(m, scanTask)
    <3>1. /\ Candidates(scanTask') = Candidates(scanTask)
          /\ \A b : Passes(m, scanTask', b) = Passes(m, scanTask, b)
          /\ \A b : LastSeen(m, scanTask', b) = LastSeen(m, scanTask, b)
      BY <2>4 DEF Candidates, Passes, LastSeen
    <3> QED BY <3>1 DEF Should
  <2> QED BY <1>1, <2>3, <2>4, <2>5 DEF ScanCorrect
<1> QED BY <1>2, <1>3, <1>4, <1>5 DEF ScanWorker

\* A task that only its button, its death or its poll touch.
LEMMA TaskKeptCorrect ==
  ASSUME ScanCorrect, TypeOK, CancelScan \/ PollScanTask \/ WorkerDies
  PROVE  ScanCorrect'
<1>1. CASE CancelScan
  <2>1. scanTask \in ScanTask /\ UNCHANGED <<mem, touched>>
    BY <1>1 DEF CancelScan, TypeOK
  <2>2. /\ scanTask'.op = scanTask.op /\ scanTask'.cmp = scanTask.cmp
        /\ scanTask'.base = scanTask.base /\ scanTask'.proc = scanTask.proc
        /\ scanTask'.todo = scanTask.todo /\ scanTask'.out = scanTask.out
        /\ scanTask'.state = scanTask.state /\ scanTask'.cancel
        /\ scanTask # NoTask
    BY <1>1, <2>1 DEF CancelScan, ScanTask
  <2>3. \A m : CorrectSoFar(m, scanTask) => CorrectSoFar(m, scanTask')
    BY <2>2 DEF CorrectSoFar, Candidates, Passes, LastSeen
  <2> QED BY <2>1, <2>2, <2>3 DEF ScanCorrect
<1>2. CASE PollScanTask
  BY <1>2 DEF PollScanTask, ScanCorrect
<1>3. CASE WorkerDies
  <2>1. CASE scanTask' = scanTask
    BY <1>3, <2>1 DEF WorkerDies, ScanCorrect
  <2>2. CASE Running(scanTask) /\ scanTask' = [scanTask EXCEPT !.state = "died"]
    <3>1. scanTask'.state = "died"
      BY <2>2 DEF Running, TypeOK, ScanTask
    <3> QED BY <3>1 DEF ScanCorrect
  <2> QED BY <1>3, <2>1, <2>2 DEF WorkerDies
<1> QED BY <1>1, <1>2, <1>3

\* Writes to the scanned process set touched, writes to others are not seen.
LEMMA WritesCorrect ==
  ASSUME ScanCorrect, TypeOK, NEW p \in Proc, NEW a \in Addr, NEW v \in Val \cup {Unmapped},
         ProcessWrites(p, a, v)
  PROVE  ScanCorrect'
<1> SUFFICES ASSUME scanTask # NoTask, ~touched' PROVE ScanCorrect'
  BY DEF ProcessWrites, ScanCorrect
<1>1. scanTask' = scanTask /\ ~touched /\ scanTask.proc # p
  BY DEF ProcessWrites, Scanned
<1>2. mem'[scanTask.proc] = mem[scanTask.proc]
  BY <1>1 DEF ProcessWrites, TypeOK, ScanTask
<1> QED BY <1>1, <1>2 DEF ScanCorrect

-----------------------------------------------------------------------------
(* The strengthened invariant of the snapshot task.                        *)

Takes(m) == {a \in Writable : m[a] # Unmapped}

SnapshotCorrect ==
  unknownTask # NoTask
    => LET m == mem[unknownTask.proc]
           kept == DOMAIN unknownTask.out
       IN /\ Cardinality(kept) <= SnapMax
          /\ ~touched
               => /\ kept \subseteq Takes(m)
                  /\ \A a \in kept : unknownTask.out[a] = m[a]
                  /\ unknownTask.state = "running" => kept = Takes(m) \ unknownTask.todo
                  /\ unknownTask.state = "sent" /\ ~unknownTask.cancel
                       => kept = Takes(m) \/ Cardinality(kept) = SnapMax

\* What a snapshot holds is a finite number of regions.
LEMMA KeptIsFinite ==
  ASSUME ConstantsAssumption, NEW t \in UnknownTask
  PROVE  /\ DOMAIN t.out \subseteq Addr /\ IsFiniteSet(DOMAIN t.out)
         /\ Cardinality(DOMAIN t.out) \in Nat
<1>1. DOMAIN t.out \in SUBSET Addr
  BY PartialElim DEF UnknownTask
<1> QED BY <1>1, FS_Subset, FS_CardinalityType DEF ConstantsAssumption

LEMMA SnapshotStartCorrect ==
  ASSUME ConstantsAssumption, TypeOK, UnknownFirst
  PROVE  SnapshotCorrect'
<1>1. /\ unknownTask'.proc = attached /\ unknownTask'.todo = Readable(attached)
      /\ unknownTask'.out = NoMatches /\ unknownTask'.state = "running"
      /\ mem' = mem /\ DOMAIN NoMatches = {}
  BY PartialEmpty DEF UnknownFirst
<1>2. Cardinality({}) = 0 /\ SnapMax \in Nat
  BY FS_EmptySet DEF ConstantsAssumption
<1>3. Takes(mem[attached]) \ Readable(attached) = {}
  BY DEF Takes, Readable, ConstantsAssumption
<1> QED BY <1>1, <1>2, <1>3 DEF SnapshotCorrect

\* A turn: the region joins the snapshot when it is writable, still there and
\* fits.
LEMMA SnapshotTurnCorrect ==
  ASSUME ConstantsAssumption, TypeOK, SnapshotCorrect, SnapshotTurn
  PROVE  SnapshotCorrect'
<1>1. /\ unknownTask # NoTask /\ unknownTask \in UnknownTask
      /\ unknownTask.state = "running" /\ UNCHANGED <<mem, touched>>
  BY DEF SnapshotTurn, Running, TypeOK
<1>2. PICK a \in unknownTask.todo :
        /\ ~Full(unknownTask, a)
        /\ unknownTask' = [unknownTask EXCEPT !.todo = @ \ {a},
                                              !.out = SnapshotTaken(unknownTask, a)]
  BY DEF SnapshotTurn
<1>3. /\ unknownTask'.proc = unknownTask.proc /\ unknownTask'.state = "running"
      /\ unknownTask'.todo = unknownTask.todo \ {a}
      /\ unknownTask'.out = SnapshotTaken(unknownTask, a)
      /\ a \in Addr
  BY <1>1, <1>2 DEF UnknownTask
<1> DEFINE m == mem[unknownTask.proc]
           kept == DOMAIN unknownTask.out
<1>4. kept \subseteq Addr /\ IsFiniteSet(kept) /\ Cardinality(kept) \in Nat /\ SnapMax \in Nat
  BY <1>1, KeptIsFinite DEF ConstantsAssumption
<1>5. CASE a \in Writable /\ m[a] # Unmapped
  <2>1. unknownTask'.out = [x \in kept \cup {a} |->
                              IF x \in kept THEN unknownTask.out[x] ELSE m[a]]
    <3>1. unknownTask'.out = With(unknownTask.out, a, m[a])
      BY <1>3, <1>5 DEF SnapshotTaken
    <3> QED BY <3>1 DEF With, Join
  <2>2. DOMAIN unknownTask'.out = kept \cup {a}
    BY <2>1
  <2>3. Cardinality(kept) < SnapMax
    BY <1>2, <1>4, <1>5 DEF Full
  <2>4. Cardinality(kept \cup {a}) <= SnapMax
    <3> HIDE DEF kept
    <3>1. Cardinality(kept \cup {a}) = IF a \in kept THEN Cardinality(kept) ELSE Cardinality(kept) + 1
      BY <1>4, FS_AddElement
    <3> QED BY <1>4, <2>3, <3>1
  <2>5. ASSUME ~touched
        PROVE  /\ kept \cup {a} \subseteq Takes(m)
               /\ \A x \in kept \cup {a} : unknownTask'.out[x] = m[x]
               /\ kept \cup {a} = Takes(m) \ unknownTask'.todo
    <3>1. /\ kept = Takes(m) \ unknownTask.todo
          /\ \A x \in kept : unknownTask.out[x] = m[x]
      BY <1>1, <2>5 DEF SnapshotCorrect
    <3> QED BY <1>2, <1>3, <1>5, <2>1, <3>1 DEF Takes
  <2> QED BY <1>1, <1>3, <2>2, <2>4, <2>5 DEF SnapshotCorrect
<1>6. CASE ~(a \in Writable /\ m[a] # Unmapped)
  <2>1. unknownTask'.out = unknownTask.out
    BY <1>3, <1>6 DEF SnapshotTaken
  <2>2. a \notin Takes(m)
    BY <1>6 DEF Takes
  <2>3. ~touched => kept = Takes(m) \ unknownTask'.todo
    BY <1>1, <1>3, <2>2 DEF SnapshotCorrect
  <2> QED BY <1>1, <1>3, <2>1, <2>3 DEF SnapshotCorrect
<1> QED BY <1>5, <1>6

\* The end of the loop: everything was looked at, or nothing more fits.
LEMMA SnapshotSendCorrect ==
  ASSUME ConstantsAssumption, TypeOK, SnapshotCorrect, SnapshotSend
  PROVE  SnapshotCorrect'
<1>1. /\ unknownTask # NoTask /\ unknownTask \in UnknownTask
      /\ unknownTask.state = "running" /\ UNCHANGED <<mem, touched>>
  BY DEF SnapshotSend, Running, TypeOK
<1>2. /\ unknownTask'.proc = unknownTask.proc /\ unknownTask'.out = unknownTask.out
      /\ unknownTask'.state = "sent" /\ unknownTask'.cancel = unknownTask.cancel
  BY <1>1 DEF SnapshotSend, UnknownTask
<1>3. Cardinality(DOMAIN unknownTask.out) \in Nat /\ SnapMax \in Nat
  BY <1>1, KeptIsFinite DEF ConstantsAssumption
<1>4. ASSUME ~touched, ~unknownTask.cancel
      PROVE  \/ DOMAIN unknownTask.out = Takes(mem[unknownTask.proc])
             \/ Cardinality(DOMAIN unknownTask.out) = SnapMax
  <2>1. CASE unknownTask.todo = {}
    BY <1>1, <1>4, <2>1 DEF SnapshotCorrect
  <2>2. CASE \E a \in unknownTask.todo : Full(unknownTask, a)
    BY <1>1, <1>3, <2>2 DEF SnapshotCorrect, Full
  <2> QED BY <1>4, <2>1, <2>2 DEF SnapshotSend
<1> QED BY <1>1, <1>2, <1>4 DEF SnapshotCorrect

\* The steps that leave what the worker took as it is.
LEMMA SnapshotKeptCorrect ==
  ASSUME SnapshotCorrect, TypeOK, CancelUnknown \/ PollUnknownTask \/ WorkerDies
  PROVE  SnapshotCorrect'
<1>1. CASE CancelUnknown
  <2>1. /\ unknownTask # NoTask /\ unknownTask \in UnknownTask
        /\ UNCHANGED <<mem, touched>>
    BY <1>1 DEF CancelUnknown, TypeOK
  <2>2. /\ unknownTask'.proc = unknownTask.proc /\ unknownTask'.out = unknownTask.out
        /\ unknownTask'.todo = unknownTask.todo /\ unknownTask'.state = unknownTask.state
        /\ unknownTask'.cancel
    BY <1>1, <2>1 DEF CancelUnknown, UnknownTask
  <2> QED BY <2>1, <2>2 DEF SnapshotCorrect
<1>2. CASE PollUnknownTask
  BY <1>2 DEF PollUnknownTask, SnapshotCorrect
<1>3. CASE WorkerDies
  <2>1. CASE unknownTask' = unknownTask
    BY <1>3, <2>1 DEF WorkerDies, SnapshotCorrect
  <2>2. CASE Running(unknownTask) /\ unknownTask' = [unknownTask EXCEPT !.state = "died"]
    <3>1. unknownTask # NoTask /\ unknownTask \in UnknownTask
      BY <2>2 DEF Running, TypeOK
    <3>2. /\ unknownTask'.proc = unknownTask.proc /\ unknownTask'.out = unknownTask.out
          /\ unknownTask'.state = "died"
      BY <2>2, <3>1 DEF UnknownTask
    <3> QED BY <1>3, <3>1, <3>2 DEF WorkerDies, SnapshotCorrect
  <2> QED BY <1>3, <2>1, <2>2 DEF WorkerDies
<1> QED BY <1>1, <1>2, <1>3

LEMMA SnapshotWritesCorrect ==
  ASSUME SnapshotCorrect, TypeOK,
         NEW p \in Proc, NEW a \in Addr, NEW v \in Val \cup {Unmapped}, ProcessWrites(p, a, v)
  PROVE  SnapshotCorrect'
<1>1. unknownTask' = unknownTask /\ (touched => touched')
  BY DEF ProcessWrites
<1>2. CASE touched'
  BY <1>1, <1>2 DEF SnapshotCorrect
<1>3. CASE unknownTask # NoTask /\ ~touched'
  <2>1. ~touched /\ unknownTask.proc # p
    BY <1>3 DEF ProcessWrites, Scanned
  <2>2. mem'[unknownTask.proc] = mem[unknownTask.proc]
    BY <1>3, <2>1 DEF ProcessWrites, TypeOK, UnknownTask
  <2> QED BY <1>1, <1>3, <2>1, <2>2 DEF SnapshotCorrect
<1> QED BY <1>1, <1>2, <1>3 DEF SnapshotCorrect

-----------------------------------------------------------------------------
(* Together.                                                               *)

ResultInv == IInv /\ ScanCorrect /\ SnapshotCorrect

\* Starting a scan of one kind finds no task of the other, and every step is
\* one of those above or touches no task.
THEOREM ResultStep == ResultInv /\ [Next]_vars => ResultInv'
<1> SUFFICES ASSUME ResultInv, [Next]_vars PROVE ScanCorrect' /\ SnapshotCorrect'
  BY NextInvariant DEF ResultInv
<1> USE ConstantsAssumption
<1>t. IInv /\ TypeOK /\ ScanCorrect /\ SnapshotCorrect
  BY DEF ResultInv, IInv
<1>1. ASSUME UNCHANGED <<mem, touched, scanTask>> PROVE ScanCorrect'
  BY <1>t, <1>1 DEF ScanCorrect
<1>2. ASSUME UNCHANGED <<mem, touched, unknownTask>> PROVE SnapshotCorrect'
  BY <1>t, <1>2 DEF SnapshotCorrect
<1>3. ASSUME NEW c \in Comparison, FirstScan(c) \/ NextScan(c) \/ UnknownNext(c)
      PROVE  ScanCorrect' /\ SnapshotCorrect'
  <2>1. attached # NoProc /\ unknownTask' = NoTask
    BY <1>3 DEF FirstScan, NextScan, UnknownNext, NextEnabled, Scanning
  <2>2. ScanCorrect'
    BY <1>t, <1>3, <2>1, StartCorrect
  <2> QED BY <2>1, <2>2 DEF SnapshotCorrect
<1>4. CASE UnknownFirst
  <2>1. scanTask' = NoTask
    BY <1>4 DEF UnknownFirst, Scanning
  <2> QED BY <1>t, <1>4, <2>1, SnapshotStartCorrect DEF ScanCorrect
<1>5. CASE (\E p \in Proc : Attach(p)) \/ NewSearch \/ UNCHANGED vars
  BY <1>1, <1>2, <1>5 DEF Attach, NewSearch, vars
<1>6. CASE CancelScan \/ PollScanTask
  BY <1>t, <1>2, <1>6, TaskKeptCorrect DEF CancelScan, PollScanTask, app
<1>7. CASE CancelUnknown \/ PollUnknownTask
  BY <1>t, <1>1, <1>7, SnapshotKeptCorrect DEF CancelUnknown, PollUnknownTask, app
<1>8. CASE ScanWorker
  <2>1. UNCHANGED <<mem, touched, unknownTask>>
    BY <1>8 DEF ScanWorker, FirstScanTurn, NextScanTurn, UnknownNextTurn, ScanTurn, ScanSend
  <2> QED BY <1>t, <1>2, <1>8, <2>1, WorkCorrect
<1>9. CASE UnknownWorker
  <2>1. UNCHANGED <<mem, touched, scanTask>>
    BY <1>9 DEF UnknownWorker, SnapshotTurn, SnapshotSend
  <2> QED BY <1>t, <1>1, <1>9, <2>1, SnapshotTurnCorrect, SnapshotSendCorrect DEF UnknownWorker
<1>10. CASE WorkerDies
  BY <1>t, <1>10, TaskKeptCorrect, SnapshotKeptCorrect
<1>11. ASSUME NEW p \in Proc, NEW a \in Addr, NEW v \in Val \cup {Unmapped},
              ProcessWrites(p, a, v)
       PROVE  ScanCorrect' /\ SnapshotCorrect'
  BY <1>t, <1>11, WritesCorrect, SnapshotWritesCorrect
<1> QED BY <1>3, <1>4, <1>5, <1>6, <1>7, <1>8, <1>9, <1>10, <1>11
        DEF Next, User, Environment

THEOREM ResultInvariance == Spec => []ResultInv
<1>1. Init => ResultInv
  BY InitInvariant DEF Init, ResultInv, ScanCorrect, SnapshotCorrect
<1>2. ResultInv /\ [Next]_vars => ResultInv'
  BY ResultStep
<1> QED BY <1>1, <1>2, PTL DEF Spec

\* A scan that was neither cancelled nor disturbed delivers what one look at the
\* whole memory would: first_scan_job, next_scan_job and unknown_next_job.
THEOREM ScansAreExact == Spec => []ScanExact
<1>1. ResultInv => ScanExact
  <2> SUFFICES ASSUME ResultInv, scanTask # NoTask, scanTask.state = "sent",
                      ~scanTask.cancel, ~touched
               PROVE  scanTask.out = Expected(scanTask)
    BY DEF ScanExact
  <2>1. scanTask \in ScanTask
    BY DEF ResultInv, IInv, TypeOK
  <2> QED BY <2>1, ExpectedIsShould DEF ResultInv, ScanCorrect
<1> QED BY <1>1, ResultInvariance, PTL

\* The snapshot of unknown_first_job holds every region it should, or is full.
THEOREM SnapshotsAreExact == Spec => []SnapshotExact
<1>1. ResultInv => SnapshotExact
  <2> SUFFICES ASSUME ResultInv, unknownTask # NoTask, unknownTask.state = "sent",
                      ~unknownTask.cancel, ~touched
               PROVE  SnapshotExact
    BY DEF SnapshotExact
  <2>1. Takes(mem[unknownTask.proc]) = Writable \cap Readable(unknownTask.proc)
    BY ConstantsAssumption DEF Takes, Readable, ConstantsAssumption
  <2> QED BY <2>1 DEF ResultInv, SnapshotCorrect, SnapshotExact
<1> QED BY <1>1, ResultInvariance, PTL

-----------------------------------------------------------------------------
(* ScanSession implements Search. First, what an answer is made of.        *)

\* The comparisons of Search are those of ScanSession.
LEMMA SameOperators ==
  /\ \A c, v, prev : A!Compare(c, v, prev) <=> Compare(c, v, prev)
  /\ \A v : A!ZeroFilled(v) = ZeroFilled(v)
  /\ \A c, v : A!FirstLast(c, v) = FirstLast(c, v)
  /\ \A c, v, last : A!NextLast(c, v, last) = NextLast(c, v, last)
  /\ A!NoMatches = NoMatches /\ A!RelativeKind = RelativeKind
  /\ A!Partial(Addr, Val) = Partial(Addr, Val)
BY DEF A!Compare, Compare, A!ZeroFilled, ZeroFilled, A!FirstLast, FirstLast,
       A!NextLast, NextLast, A!NoMatches, NoMatches, A!RelativeKind, RelativeKind,
       A!Partial, Partial

\* Search counts with an instance of FiniteSets of its own.
LEMMA SameCardinality == \A S : A!Cardinality(S) = Cardinality(S)
  BY DEF A!Cardinality, Cardinality

\* What was right stays right when more values are admitted.
LEMMA RightGrows ==
  ASSUME NEW s, NEW u, u.op = s.op, u.cmp = s.cmp, u.base = s.base,
         NEW a, s.held[a] \subseteq u.held[a], NEW out, A!Right(s, a, out)
  PROVE  A!Right(u, a, out)
<1>1. \A v : /\ A!Passes(u, a, v) <=> A!Passes(s, a, v)
             /\ A!Remembered(u, a, v) = A!Remembered(s, a, v)
  BY DEF A!Passes, A!Remembered
<1> QED BY <1>1 DEF A!Right

\* An answer that was admitted stays so.
LEMMA AnswersGrow ==
  ASSUME NEW s, NEW u, u.op = s.op, u.cmp = s.cmp, u.base = s.base,
         s.cancelled => u.cancelled, A!Regions(s) \subseteq Addr,
         \A a \in Addr : s.held[a] \subseteq u.held[a],
         NEW out, A!Answers(s, out)
  PROVE  A!Answers(u, out)
<1>1. A!Regions(u) = A!Regions(s)
  BY DEF A!Regions
<1>2. \A a \in A!Regions(s) : A!Right(s, a, out) => A!Right(u, a, out)
  BY RightGrows
<1>3. \A a : A!Unscanned(s, a, out) <=> A!Unscanned(u, a, out)
  BY DEF A!Unscanned
<1> QED BY <1>1, <1>2, <1>3 DEF A!Answers

\* What is right depends on what is said of the region alone.
LEMMA RightElsewhere ==
  ASSUME NEW s, NEW a, NEW out, NEW new, A!Right(s, a, out),
         a \in DOMAIN new <=> a \in DOMAIN out, a \in DOMAIN out => new[a] = out[a]
  PROVE  A!Right(s, a, new)
BY DEF A!Right

-----------------------------------------------------------------------------
(* A scan on its way: the regions behind it are judged right.              *)

Judged(s, todo, out) ==
  /\ todo \subseteq A!Regions(s)
  /\ DOMAIN out \subseteq A!Regions(s) \ todo
  /\ \A a \in A!Regions(s) \ todo : A!Right(s, a, out)

\* A turn: the region it reads joins those.
LEMMA TurnJudged ==
  ASSUME NEW s, NEW todo, NEW out, Judged(s, todo, out), NEW a \in todo,
         NEW v \in s.held[a], NEW new,
         new = IF A!Passes(s, a, v) THEN With(out, a, A!Remembered(s, a, v)) ELSE out
  PROVE  Judged(s, todo \ {a}, new)
<1>1. a \notin DOMAIN out /\ a \in A!Regions(s)
  BY DEF Judged
<1>2. CASE A!Passes(s, a, v)
  <2>1. new = [x \in DOMAIN out \cup {a} |->
                 IF x \in DOMAIN out THEN out[x] ELSE A!Remembered(s, a, v)]
    <3>1. new = With(out, a, A!Remembered(s, a, v))
      BY <1>2
    <3> QED BY <3>1 DEF With, Join
  <2>2. DOMAIN new = DOMAIN out \cup {a} /\ new[a] = A!Remembered(s, a, v)
    BY <1>1, <2>1
  <2>3. \A x \in DOMAIN out : new[x] = out[x]
    BY <2>1
  <2>4. A!Right(s, a, new)
    BY <1>2, <2>2 DEF A!Right
  <2>5. \A b \in A!Regions(s) \ todo : A!Right(s, b, new)
    <3>1. TAKE b \in A!Regions(s) \ todo
    <3>2. b \in DOMAIN new <=> b \in DOMAIN out
      BY <2>2
    <3> QED BY <2>3, <3>2, RightElsewhere DEF Judged
  <2> QED BY <1>1, <2>2, <2>4, <2>5 DEF Judged
<1>3. CASE ~A!Passes(s, a, v)
  <2>1. new = out /\ A!Right(s, a, out)
    BY <1>1, <1>3 DEF A!Right
  <2> QED BY <1>1, <2>1 DEF Judged
<1> QED BY <1>2, <1>3

\* The end of a scan of regions or of the snapshot: what was not reached is left out.
LEMMA EndAnswers ==
  ASSUME NEW s, NEW todo, NEW out, Judged(s, todo, out), s.op # "next",
         \/ todo = {} \/ s.cancelled
         \/ s.op = "snapshot" /\ Cardinality(DOMAIN out) = SnapMax,
         s.op = "snapshot" => Cardinality(DOMAIN out) <= SnapMax
  PROVE  A!Answers(s, out)
<1>1. \A a \in todo : A!Unscanned(s, a, out)
  BY DEF Judged, A!Unscanned
<1> QED BY <1>1, SameCardinality DEF Judged, A!Answers

\* The end of a next scan: what was not reached is kept as it was.
LEMMA NextEndAnswers ==
  ASSUME NEW s, NEW todo, NEW out, Judged(s, todo, out), s.op = "next",
         todo = {} \/ s.cancelled
  PROVE  A!Answers(s, Join(out, Restrict(s.base, todo)))
<1> DEFINE rest == Restrict(s.base, todo)
           new  == Join(out, rest)
<1>1. todo \subseteq DOMAIN s.base /\ A!Regions(s) = DOMAIN s.base
  BY DEF Judged, A!Regions
<1>2. DOMAIN rest = todo /\ \A a \in todo : rest[a] = s.base[a]
  BY <1>1 DEF Restrict
<1>3. new = [x \in DOMAIN out \cup DOMAIN rest |-> IF x \in DOMAIN out THEN out[x] ELSE rest[x]]
  BY DEF Join
<1> HIDE DEF rest, new
<1>4. DOMAIN new = DOMAIN out \cup todo
  BY <1>2, <1>3
<1>5. \A a \in todo : A!Unscanned(s, a, new)
  BY <1>2, <1>3, <1>4 DEF Judged, A!Unscanned
<1>6. \A a \in A!Regions(s) \ todo : A!Right(s, a, new)
  <2>1. TAKE a \in A!Regions(s) \ todo
  <2>2. (a \in DOMAIN new <=> a \in DOMAIN out) /\ (a \in DOMAIN out => new[a] = out[a])
    BY <1>3, <1>4
  <2> QED BY <2>2, RightElsewhere DEF Judged
<1>7. DOMAIN new \subseteq A!Regions(s)
  BY <1>4 DEF Judged
<1>8. A!Answers(s, new)
  BY <1>5, <1>6, <1>7 DEF A!Answers
<1> QED BY <1>8 DEF new, rest

-----------------------------------------------------------------------------
(* The invariant of the refinement.                                        *)

\* The history holds what the regions of the scanned process hold now.
HeldInv ==
  /\ held \in [Addr -> SUBSET (Val \cup {Unmapped})]
  /\ PendingTask = NoTask => held = NothingHeld
  /\ PendingTask # NoTask => \A a \in Addr : mem[PendingTask.proc][a] \in held[a]

\* What a worker has found is right for values the history holds, and so is
\* what it has sent.
ScanJudged ==
  scanTask # NoTask
    => /\ scanTask.state = "running" => Judged(Pending, scanTask.todo, scanTask.out)
       /\ scanTask.state = "sent" => A!Answers(Pending, scanTask.out)

SnapshotJudged ==
  unknownTask # NoTask
    => /\ unknownTask.state = "running" => Judged(Pending, unknownTask.todo, unknownTask.out)
       /\ unknownTask.state = "sent" => A!Answers(Pending, unknownTask.out)

SearchInv == ResultInv /\ HeldInv /\ ScanJudged /\ SnapshotJudged

\* What every step is shown to do.
Simulated == ScanJudged' /\ SnapshotJudged' /\ [A!Next]_(A!vars)

\* Every step keeps the history.
LEMMA HeldStep ==
  ASSUME TypeOK', HeldInv, Remember
  PROVE  HeldInv'
<1>1. CASE PendingTask' = NoTask
  BY <1>1 DEF HeldInv, Remember, NothingHeld
<1>2. CASE PendingTask' # NoTask
  <2>1. PendingTask'.proc \in Proc
    BY <1>2 DEF PendingTask, TypeOK, ScanTask, UnknownTask
  <2>2. held' = [a \in Addr |-> held[a] \cup {mem'[PendingTask'.proc][a]}]
    BY <1>2 DEF Remember
  <2>3. \A a \in Addr : mem'[PendingTask'.proc][a] \in Val \cup {Unmapped}
    BY <2>1 DEF TypeOK
  <2> QED BY <1>2, <2>2, <2>3 DEF HeldInv
<1> QED BY <1>1, <1>2

\* While the memory stands still the history does.
LEMMA HeldStays ==
  ASSUME HeldInv, Remember, mem' = mem, PendingTask # NoTask, PendingTask' # NoTask,
         PendingTask'.proc = PendingTask.proc
  PROVE  held' = held
<1>1. held' = [a \in Addr |-> held[a] \cup {mem[PendingTask.proc][a]}]
  BY DEF Remember
<1>2. \A a \in Addr : held[a] \cup {mem[PendingTask.proc][a]} = held[a]
  BY DEF HeldInv
<1>3. held = [a \in Addr |-> held[a]]
  BY DEF HeldInv
<1> QED BY <1>1, <1>2, <1>3

\* Nor does the search, while its worker is at it.
LEMMA ScanStays ==
  ASSUME HeldInv, Remember, mem' = mem, scanTask # NoTask, scanTask' # NoTask,
         scanTask'.op = scanTask.op, scanTask'.proc = scanTask.proc,
         scanTask'.cmp = scanTask.cmp, scanTask'.base = scanTask.base,
         scanTask'.cancel = scanTask.cancel
  PROVE  Pending' = Pending
<1>1. held' = held
  BY HeldStays DEF PendingTask
<1> QED BY <1>1 DEF Pending

LEMMA SnapshotStays ==
  ASSUME HeldInv, Remember, mem' = mem, scanTask = NoTask, scanTask' = NoTask,
         unknownTask # NoTask, unknownTask' # NoTask,
         unknownTask'.proc = unknownTask.proc, unknownTask'.cancel = unknownTask.cancel
  PROVE  Pending' = Pending
<1>1. held' = held
  BY HeldStays DEF PendingTask
<1> QED BY <1>1 DEF Pending

\* A step of a worker is not one of the search.
LEMMA SessionStays ==
  ASSUME UNCHANGED <<mem, app>>, Pending' = Pending
  PROVE  UNCHANGED A!vars
BY DEF app, A!vars

\* The fields of the search that is pending.
LEMMA PendingScan ==
  ASSUME scanTask # NoTask
  PROVE  /\ Pending.op = scanTask.op /\ Pending.proc = scanTask.proc
         /\ Pending.cmp = scanTask.cmp /\ Pending.base = scanTask.base
         /\ Pending.held = held /\ Pending.cancelled = scanTask.cancel
BY DEF Pending

LEMMA PendingSnapshot ==
  ASSUME scanTask = NoTask, unknownTask # NoTask
  PROVE  /\ Pending.op = "snapshot" /\ Pending.proc = unknownTask.proc
         /\ Pending.held = held /\ Pending.cancelled = unknownTask.cancel
BY DEF Pending

-----------------------------------------------------------------------------
(* A scan begins.                                                          *)

\* A new task is a new search: what could not be read was judged by what it held.
LEMMA AskSimulated ==
  ASSUME ConstantsAssumption, SearchInv, Remember, attached # NoProc, ~Scanning,
         NEW op \in {"first", "next", "unknown_next"}, NEW c \in Comparison,
         NEW base \in Partial(Addr, Val), NEW todo \in SUBSET Addr,
         IF op = "first" THEN todo = Readable(attached) ELSE todo = DOMAIN base,
         scanTask' = NewScan(op, c, base, todo), unknownTask' = unknownTask, mem' = mem
  PROVE  ScanJudged' /\ SnapshotJudged' /\ A!Idle /\ A!Ask(op, c, base)
<1> DEFINE t == NewScan(op, c, base, todo)
           now == [a \in Addr |-> {mem[attached][a]}]
           s == [op |-> op, proc |-> attached, cmp |-> c, base |-> base, held |-> now,
                 cancelled |-> FALSE]
<1>1. scanTask = NoTask /\ unknownTask = NoTask /\ unknownTask' = NoTask
  BY DEF Scanning
<1>2. t \in ScanTask /\ t # NoTask
  BY NewScanType, ConstantsAssumption DEF ConstantsAssumption, SearchInv, ResultInv, IInv
<1>3. /\ t.op = op /\ t.proc = attached /\ t.cmp = c /\ t.base = base /\ t.todo = todo
      /\ t.out = NoMatches /\ t.cancel = FALSE /\ t.state = "running"
  BY DEF NewScan
<1>4. held' = now
  <2>1. held' = [a \in Addr |-> held[a] \cup {mem[attached][a]}]
    <3>1. PendingTask' = t
      BY <1>2 DEF PendingTask
    <3> HIDE DEF t
    <3> QED BY <1>2, <1>3, <3>1 DEF Remember
  <2>2. \A a \in Addr : held[a] = {}
    BY <1>1 DEF SearchInv, HeldInv, PendingTask, NothingHeld
  <2> QED BY <2>1, <2>2
<1>5. Pending' = s
  <2>1. scanTask' = t /\ t # NoTask
    BY <1>2
  <2> HIDE DEF t
  <2> QED BY <1>3, <1>4, <2>1 DEF Pending
<1>6. A!Idle /\ A!Ask(op, c, base)
  BY <1>1, <1>5 DEF A!Idle, A!NoSearch, A!Ask, Pending
<1>7. Judged(s, todo, NoMatches)
  <2>1. /\ s.op = op /\ s.base = base /\ s.held = now
        /\ DOMAIN NoMatches = {}
    BY PartialEmpty
  <2> HIDE DEF s
  <2>2. todo \subseteq A!Regions(s)
    BY <2>1 DEF A!Regions
  <2>3. ASSUME NEW a \in A!Regions(s) \ todo PROVE A!Right(s, a, NoMatches)
    <3>1. op = "first" /\ a \in Addr /\ mem[attached][a] = Unmapped
      BY <2>1, <2>3 DEF A!Regions, Readable
    <3>2. Unmapped \in s.held[a]
      BY <2>1, <3>1
    <3>3. ~A!Passes(s, a, Unmapped)
      BY <2>1, <3>1 DEF A!Passes
    <3> QED BY <2>1, <3>2, <3>3 DEF A!Right
  <2> QED BY <2>1, <2>2, <2>3 DEF Judged
<1>8. ScanJudged'
  <2>1. scanTask' = t
    OBVIOUS
  <2> HIDE DEF t, s
  <2> QED BY <1>3, <1>5, <1>7, <2>1 DEF ScanJudged
<1> QED BY <1>1, <1>6, <1>8 DEF SnapshotJudged

\* do_first_scan, start_string_scan and do_next_scan.
LEMMA StartSimulated ==
  ASSUME ConstantsAssumption, SearchInv, Remember, NEW c \in Comparison,
         FirstScan(c) \/ NextScan(c) \/ UnknownNext(c)
  PROVE  Simulated
<1>1. /\ TypeOK /\ matches \in Partial(Addr, Val) /\ DOMAIN matches \subseteq Addr
  BY PartialElim DEF SearchInv, ResultInv, IInv, TypeOK
<1>2. CASE FirstScan(c)
  <2>1. /\ attached # NoProc /\ ~Scanning /\ mem' = mem /\ unknownTask' = unknownTask
        /\ scanTask' = NewScan("first", c, NoMatches, Readable(attached))
        /\ Readable(attached) \in SUBSET Addr /\ NoMatches \in Partial(Addr, Val)
    BY <1>2, PartialEmpty DEF FirstScan, Readable
  <2>2. ScanJudged' /\ SnapshotJudged' /\ A!Idle /\ A!Ask("first", c, NoMatches)
    BY <2>1, AskSimulated
  <2>3. A!First(c)
    BY <1>2, <2>2, SameOperators DEF A!First, FirstScan
  <2> QED BY <2>2, <2>3 DEF Simulated, A!Next
<1>3. CASE NextScan(c)
  <2>1. /\ attached # NoProc /\ ~Scanning /\ mem' = mem /\ unknownTask' = unknownTask
        /\ scanTask' = NewScan("next", c, matches, DOMAIN matches)
        /\ hasScanned
    BY <1>3 DEF NextScan, NextEnabled
  <2>2. ScanJudged' /\ SnapshotJudged' /\ A!Idle /\ A!Ask("next", c, matches)
    BY <1>1, <2>1, AskSimulated
  <2>3. A!Again(c)
    BY <1>3, <2>1, <2>2, SameOperators DEF A!Again, NextScan
  <2> QED BY <2>2, <2>3 DEF Simulated, A!Next
<1>4. CASE UnknownNext(c)
  <2>1. /\ attached # NoProc /\ ~Scanning /\ mem' = mem /\ unknownTask' = unknownTask
        /\ scanTask' = NewScan("unknown_next", c, snapshot, DOMAIN snapshot)
        /\ hasScanned
    BY <1>4 DEF UnknownNext, NextEnabled
  <2>2. snapshot \in Partial(Addr, Val) /\ DOMAIN snapshot \subseteq Addr
    BY <1>1, <1>4, PartialElim DEF UnknownNext, TypeOK
  <2>3. ScanJudged' /\ SnapshotJudged' /\ A!Idle /\ A!Ask("unknown_next", c, snapshot)
    BY <2>1, <2>2, AskSimulated
  <2>4. A!Narrow(c)
    BY <1>4, <2>1, <2>3 DEF A!Narrow, UnknownNext
  <2> QED BY <2>3, <2>4 DEF Simulated, A!Next
<1> QED BY <1>2, <1>3, <1>4

\* do_unknown_first.
LEMMA UnknownFirstSimulated ==
  ASSUME ConstantsAssumption, SearchInv, Remember, UnknownFirst, TypeOK'
  PROVE  Simulated
<1> DEFINE now == [a \in Addr |-> {mem[attached][a]}]
           s == [op |-> "snapshot", proc |-> attached, cmp |-> [kind |-> "none"],
                 base |-> NoMatches, held |-> now, cancelled |-> FALSE]
<1>1. /\ attached # NoProc /\ scanTask = NoTask /\ unknownTask = NoTask /\ scanTask' = NoTask
      /\ mem' = mem
  BY DEF UnknownFirst, Scanning
<1>2. /\ unknownTask'.proc = attached /\ unknownTask'.todo = Readable(attached)
      /\ unknownTask'.out = NoMatches /\ unknownTask'.cancel = FALSE
      /\ unknownTask'.state = "running"
  BY DEF UnknownFirst
<1>3. unknownTask' # NoTask
  <2>1. unknownTask' \in UnknownTask
    <3>1. attached \in Proc /\ Readable(attached) \in SUBSET Addr
      BY <1>1 DEF SearchInv, ResultInv, IInv, TypeOK, Readable
    <3> QED BY <3>1, PartialEmpty DEF UnknownFirst, UnknownTask
  <2> QED BY <2>1 DEF ConstantsAssumption
<1>4. held' = now
  <2>1. held' = [a \in Addr |-> held[a] \cup {mem[attached][a]}]
    BY <1>1, <1>2, <1>3 DEF Remember, PendingTask
  <2>2. \A a \in Addr : held[a] = {}
    BY <1>1 DEF SearchInv, HeldInv, PendingTask, NothingHeld
  <2> QED BY <2>1, <2>2
<1>5. Pending' = s
  BY <1>1, <1>2, <1>3, <1>4 DEF Pending
<1>6. A!TakeSnapshot
  <2>1. A!Idle
    BY <1>1 DEF A!Idle, A!NoSearch, Pending
  <2>2. A!Ask("snapshot", A!NoComparison, A!NoMatches)
    BY <1>5, SameOperators DEF A!Ask, A!NoComparison
  <2> QED BY <1>1, <2>1, <2>2, SameOperators DEF A!TakeSnapshot, UnknownFirst
<1>7. Judged(s, Readable(attached), NoMatches)
  <2>1. s.op = "snapshot" /\ s.held = now /\ DOMAIN NoMatches = {}
    BY PartialEmpty
  <2> HIDE DEF s
  <2>2. A!Regions(s) = Addr /\ Readable(attached) \subseteq Addr
    BY <2>1 DEF A!Regions, Readable
  <2>3. ASSUME NEW a \in Addr \ Readable(attached) PROVE A!Right(s, a, NoMatches)
    <3>1. Unmapped \in s.held[a]
      BY <2>1 DEF Readable
    <3>2. ~A!Passes(s, a, Unmapped)
      BY <2>1 DEF A!Passes
    <3> QED BY <2>1, <3>1, <3>2 DEF A!Right
  <2> QED BY <2>1, <2>2, <2>3 DEF Judged
<1>8. SnapshotJudged'
  <2> HIDE DEF s
  <2> QED BY <1>2, <1>5, <1>7 DEF SnapshotJudged
<1> QED BY <1>1, <1>6, <1>8 DEF Simulated, ScanJudged, A!Next

-----------------------------------------------------------------------------
(* A scan goes on.                                                         *)

\* A turn judges one region by what it holds now, which is in the history.
LEMMA ScanTurnSimulated ==
  ASSUME SearchInv, Remember, Running(scanTask), NEW a \in scanTask.todo, NEW r,
         r = IF A!Passes(Pending, a, mem[scanTask.proc][a])
             THEN With(scanTask.out, a, A!Remembered(Pending, a, mem[scanTask.proc][a]))
             ELSE scanTask.out,
         scanTask' = [scanTask EXCEPT !.todo = @ \ {a}, !.out = r], scanTask' # NoTask,
         UNCHANGED <<mem, app, unknownTask>>
  PROVE  Simulated
<1>1. /\ scanTask # NoTask /\ scanTask \in ScanTask /\ scanTask.state = "running"
      /\ unknownTask' = NoTask
  BY DEF Running, SearchInv, ResultInv, IInv, TypeOK, OneScanAtATime
<1>2. /\ scanTask'.op = scanTask.op /\ scanTask'.proc = scanTask.proc
      /\ scanTask'.cmp = scanTask.cmp /\ scanTask'.base = scanTask.base
      /\ scanTask'.cancel = scanTask.cancel /\ scanTask'.state = "running"
      /\ scanTask'.todo = scanTask.todo \ {a} /\ scanTask'.out = r
  BY <1>1 DEF ScanTask
<1>3. Pending' = Pending
  BY <1>1, <1>2, ScanStays DEF SearchInv
<1>4. mem[scanTask.proc][a] \in Pending.held[a]
  <2>1. a \in Addr
    BY <1>1 DEF ScanTask
  <2> QED BY <1>1, <2>1, PendingScan DEF SearchInv, HeldInv, PendingTask
<1>5. Judged(Pending, scanTask.todo \ {a}, r)
  BY <1>1, <1>4, TurnJudged DEF SearchInv, ScanJudged
<1>6. ScanJudged'
  BY <1>2, <1>3, <1>5 DEF ScanJudged
<1>7. UNCHANGED A!vars
  BY <1>3, SessionStays
<1> QED BY <1>1, <1>6, <1>7 DEF Simulated, SnapshotJudged

\* The task of a turn is a task.
LEMMA TurnIsTask ==
  ASSUME ConstantsAssumption, NEW t \in ScanTask, NEW a, NEW r \in Partial(Addr, Val)
  PROVE  [t EXCEPT !.todo = @ \ {a}, !.out = r] # NoTask
<1>1. [t EXCEPT !.todo = @ \ {a}, !.out = r] \in ScanTask
  BY DEF ScanTask
<1> QED BY <1>1 DEF ConstantsAssumption

\* The three loops judge as Search does.
LEMMA ScanTurnsSimulated ==
  ASSUME ConstantsAssumption, SearchInv, Remember,
         FirstScanTurn \/ NextScanTurn \/ UnknownNextTurn
  PROVE  Simulated
<1>1. /\ Running(scanTask) /\ scanTask # NoTask /\ scanTask \in ScanTask /\ TypeOK
      /\ UNCHANGED <<mem, app, unknownTask>>
  BY DEF FirstScanTurn, NextScanTurn, UnknownNextTurn, ScanTurn, Running, SearchInv,
         ResultInv, IInv, TypeOK
<1>2. /\ Pending.op = scanTask.op /\ Pending.cmp = scanTask.cmp /\ Pending.base = scanTask.base
  BY <1>1, PendingScan
<1>3. ASSUME NEW a \in scanTask.todo, NEW r \in Partial(Addr, Val),
             r = IF A!Passes(Pending, a, mem[scanTask.proc][a])
                 THEN With(scanTask.out, a, A!Remembered(Pending, a, mem[scanTask.proc][a]))
                 ELSE scanTask.out,
             scanTask' = [scanTask EXCEPT !.todo = @ \ {a}, !.out = r]
      PROVE  Simulated
  <2>1. scanTask' # NoTask
    BY <1>1, <1>3, TurnIsTask
  <2> QED BY <1>1, <1>3, <2>1, ScanTurnSimulated
<1>4. CASE FirstScanTurn
  <2>1. PICK a \in scanTask.todo :
          scanTask' = [scanTask EXCEPT !.todo = @ \ {a}, !.out = FirstFound(scanTask, a)]
    BY <1>4 DEF FirstScanTurn, ScanTurn
  <2>2. Pending.op = "first" /\ scanTask.op = "first"
    BY <1>2, <1>4 DEF FirstScanTurn, ScanTurn
  <2>3. FirstFound(scanTask, a) \in Partial(Addr, Val)
    BY <1>1, <2>2, TurnType
  <2>4. FirstFound(scanTask, a) =
          IF A!Passes(Pending, a, mem[scanTask.proc][a])
          THEN With(scanTask.out, a, A!Remembered(Pending, a, mem[scanTask.proc][a]))
          ELSE scanTask.out
    BY <1>2, <2>2, SameOperators DEF FirstFound, A!Passes, A!Remembered
  <2> QED BY <1>3, <2>1, <2>3, <2>4
<1>5. CASE NextScanTurn
  <2>1. PICK a \in scanTask.todo :
          scanTask' = [scanTask EXCEPT !.todo = @ \ {a}, !.out = NextKept(scanTask, a)]
    BY <1>5 DEF NextScanTurn, ScanTurn
  <2>2. Pending.op = "next" /\ scanTask.op = "next"
    BY <1>2, <1>5 DEF NextScanTurn, ScanTurn
  <2>3. a \in DOMAIN scanTask.base
    BY <1>1, <2>2 DEF SearchInv, ResultInv, IInv, NextScanSplits
  <2>4. NextKept(scanTask, a) \in Partial(Addr, Val)
    BY <1>1, <2>2, <2>3, TurnType
  <2>5. NextKept(scanTask, a) =
          IF A!Passes(Pending, a, mem[scanTask.proc][a])
          THEN With(scanTask.out, a, A!Remembered(Pending, a, mem[scanTask.proc][a]))
          ELSE scanTask.out
    BY <1>2, <2>2, SameOperators DEF NextKept, A!Passes, A!Remembered
  <2> QED BY <1>3, <2>1, <2>4, <2>5
<1>6. CASE UnknownNextTurn
  <2>1. PICK a \in scanTask.todo :
          scanTask' = [scanTask EXCEPT !.todo = @ \ {a}, !.out = UnknownNextFound(scanTask, a)]
    BY <1>6 DEF UnknownNextTurn, ScanTurn
  <2>2. Pending.op = "unknown_next" /\ scanTask.op = "unknown_next"
    BY <1>2, <1>6 DEF UnknownNextTurn, ScanTurn
  <2>3. UnknownNextFound(scanTask, a) \in Partial(Addr, Val)
    BY <1>1, <2>2, TurnType
  <2>4. UnknownNextFound(scanTask, a) =
          IF A!Passes(Pending, a, mem[scanTask.proc][a])
          THEN With(scanTask.out, a, A!Remembered(Pending, a, mem[scanTask.proc][a]))
          ELSE scanTask.out
    BY <1>2, <2>2, SameOperators DEF UnknownNextFound, A!Passes, A!Remembered
  <2> QED BY <1>3, <2>1, <2>3, <2>4
<1> QED BY <1>4, <1>5, <1>6

\* What is sent is an answer.
LEMMA ScanSendSimulated ==
  ASSUME ConstantsAssumption, SearchInv, Remember, ScanSend, TypeOK'
  PROVE  Simulated
<1>1. /\ scanTask # NoTask /\ scanTask \in ScanTask /\ scanTask.state = "running"
      /\ unknownTask' = NoTask /\ UNCHANGED <<mem, app>>
  BY DEF ScanSend, Running, SearchInv, ResultInv, IInv, TypeOK, OneScanAtATime
<1>2. /\ scanTask'.op = scanTask.op /\ scanTask'.proc = scanTask.proc
      /\ scanTask'.cmp = scanTask.cmp /\ scanTask'.base = scanTask.base
      /\ scanTask'.cancel = scanTask.cancel /\ scanTask'.state = "sent"
      /\ scanTask'.out = ScanResult(scanTask)
  BY <1>1 DEF ScanSend, ScanTask
<1>3. scanTask' # NoTask
  <2>1. DOMAIN scanTask' = DOMAIN scanTask
    BY DEF ScanSend
  <2>2. scanTask' \in ScanTask
    <3>1. ScanResult(scanTask) \in Partial(Addr, Val)
      <4>1. CASE scanTask.op = "next"
        BY <1>1, <4>1, SentFilters DEF SearchInv, ResultInv, IInv, NextScanSplits
      <4>2. CASE scanTask.op # "next"
        BY <1>1, <4>2 DEF ScanResult, ScanTask
      <4> QED BY <4>1, <4>2
    <3> QED BY <1>1, <3>1 DEF ScanSend, ScanTask
  <2> QED BY <2>2 DEF ConstantsAssumption
<1>4. Pending' = Pending
  BY <1>1, <1>2, <1>3, ScanStays DEF SearchInv
<1>5. /\ Judged(Pending, scanTask.todo, scanTask.out)
      /\ Pending.op = scanTask.op /\ Pending.base = scanTask.base
      /\ scanTask.todo = {} \/ Pending.cancelled
  BY <1>1, PendingScan DEF SearchInv, ScanJudged, ScanSend
<1>6. A!Answers(Pending, ScanResult(scanTask))
  <2>1. CASE scanTask.op = "next"
    BY <1>5, <2>1, NextEndAnswers DEF ScanResult
  <2>2. CASE scanTask.op # "next"
    <3>1. Pending.op # "snapshot" /\ Pending.op # "next"
      BY <1>1, <1>5, <2>2 DEF ScanTask
    <3> QED BY <1>5, <2>2, <3>1, EndAnswers DEF ScanResult
  <2> QED BY <2>1, <2>2
<1>7. ScanJudged'
  BY <1>2, <1>4, <1>6 DEF ScanJudged
<1>8. UNCHANGED A!vars
  BY <1>1, <1>4, SessionStays
<1> QED BY <1>1, <1>7, <1>8 DEF Simulated, SnapshotJudged

\* The same for the snapshot.
LEMMA SnapshotTurnSimulated ==
  ASSUME ConstantsAssumption, SearchInv, Remember, SnapshotTurn
  PROVE  Simulated
<1>1. /\ unknownTask # NoTask /\ unknownTask \in UnknownTask /\ unknownTask.state = "running"
      /\ scanTask = NoTask /\ scanTask' = NoTask /\ TypeOK /\ UNCHANGED <<mem, app>>
  BY DEF SnapshotTurn, Running, SearchInv, ResultInv, IInv, TypeOK, OneScanAtATime
<1>2. PICK a \in unknownTask.todo :
        unknownTask' = [unknownTask EXCEPT !.todo = @ \ {a}, !.out = SnapshotTaken(unknownTask, a)]
  BY DEF SnapshotTurn
<1>3. /\ unknownTask'.proc = unknownTask.proc /\ unknownTask'.cancel = unknownTask.cancel
      /\ unknownTask'.state = "running" /\ unknownTask'.todo = unknownTask.todo \ {a}
      /\ unknownTask'.out = SnapshotTaken(unknownTask, a)
  BY <1>1, <1>2 DEF UnknownTask
<1>4. unknownTask' # NoTask
  <2>1. SnapshotTaken(unknownTask, a) \in Partial(Addr, Val)
    BY <1>1, SnapshotTurnType
  <2>2. unknownTask' \in UnknownTask
    BY <1>1, <1>2, <2>1 DEF UnknownTask
  <2> QED BY <2>2 DEF ConstantsAssumption
<1>5. Pending' = Pending
  BY <1>1, <1>3, <1>4, SnapshotStays DEF SearchInv
<1>6. Judged(Pending, unknownTask.todo \ {a}, SnapshotTaken(unknownTask, a))
  <2>1. mem[unknownTask.proc][a] \in Pending.held[a]
    <3>1. a \in Addr
      BY <1>1 DEF UnknownTask
    <3> QED BY <1>1, <3>1, PendingSnapshot DEF SearchInv, HeldInv, PendingTask
  <2>2. SnapshotTaken(unknownTask, a) =
          IF A!Passes(Pending, a, mem[unknownTask.proc][a])
          THEN With(unknownTask.out, a, A!Remembered(Pending, a, mem[unknownTask.proc][a]))
          ELSE unknownTask.out
    BY <1>1, PendingSnapshot DEF SnapshotTaken, A!Passes, A!Remembered
  <2>3. Judged(Pending, unknownTask.todo, unknownTask.out)
    BY <1>1 DEF SearchInv, SnapshotJudged
  <2> QED BY <2>1, <2>2, <2>3, TurnJudged
<1>7. SnapshotJudged'
  BY <1>3, <1>5, <1>6 DEF SnapshotJudged
<1>8. UNCHANGED A!vars
  BY <1>1, <1>5, SessionStays
<1> QED BY <1>1, <1>7, <1>8 DEF Simulated, ScanJudged

LEMMA SnapshotSendSimulated ==
  ASSUME ConstantsAssumption, SearchInv, Remember, SnapshotSend
  PROVE  Simulated
<1>1. /\ unknownTask # NoTask /\ unknownTask \in UnknownTask /\ unknownTask.state = "running"
      /\ scanTask = NoTask /\ scanTask' = NoTask /\ TypeOK /\ UNCHANGED <<mem, app>>
  BY DEF SnapshotSend, Running, SearchInv, ResultInv, IInv, TypeOK, OneScanAtATime
<1>2. /\ unknownTask'.proc = unknownTask.proc /\ unknownTask'.cancel = unknownTask.cancel
      /\ unknownTask'.state = "sent" /\ unknownTask'.out = unknownTask.out
  BY <1>1 DEF SnapshotSend, UnknownTask
<1>3. unknownTask' # NoTask
  <2>1. unknownTask' \in UnknownTask
    BY <1>1 DEF SnapshotSend, UnknownTask
  <2> QED BY <2>1 DEF ConstantsAssumption
<1>4. Pending' = Pending
  BY <1>1, <1>2, <1>3, SnapshotStays DEF SearchInv
<1>5. /\ Cardinality(DOMAIN unknownTask.out) \in Nat /\ SnapMax \in Nat
      /\ Cardinality(DOMAIN unknownTask.out) <= SnapMax
  BY <1>1, KeptIsFinite DEF ConstantsAssumption, SearchInv, ResultInv, SnapshotCorrect
<1>6. \/ unknownTask.todo = {} \/ Pending.cancelled
      \/ Cardinality(DOMAIN unknownTask.out) = SnapMax
  BY <1>1, <1>5, PendingSnapshot DEF SnapshotSend, Full
<1>7. A!Answers(Pending, unknownTask.out)
  BY <1>1, <1>5, <1>6, PendingSnapshot, EndAnswers DEF SearchInv, SnapshotJudged
<1>8. SnapshotJudged'
  BY <1>2, <1>4, <1>7 DEF SnapshotJudged
<1>9. UNCHANGED A!vars
  BY <1>1, <1>4, SessionStays
<1> QED BY <1>1, <1>8, <1>9 DEF Simulated, ScanJudged

\* Nobody sees that a worker died until its task is polled.
LEMMA DeathSimulated ==
  ASSUME ConstantsAssumption, SearchInv, Remember, WorkerDies
  PROVE  Simulated
<1>1. TypeOK /\ OneScanAtATime /\ UNCHANGED <<mem, app>>
  BY DEF WorkerDies, SearchInv, ResultInv, IInv
<1>2. CASE /\ Running(scanTask) /\ scanTask' = [scanTask EXCEPT !.state = "died"]
           /\ UNCHANGED unknownTask
  <2>1. scanTask # NoTask /\ scanTask \in ScanTask /\ unknownTask' = NoTask
    BY <1>1, <1>2 DEF Running, TypeOK, OneScanAtATime
  <2>2. /\ scanTask'.op = scanTask.op /\ scanTask'.proc = scanTask.proc
        /\ scanTask'.cmp = scanTask.cmp /\ scanTask'.base = scanTask.base
        /\ scanTask'.cancel = scanTask.cancel /\ scanTask'.state = "died"
    BY <1>2, <2>1 DEF ScanTask
  <2>3. scanTask' # NoTask
    <3>1. scanTask' \in ScanTask
      BY <1>2, <2>1 DEF ScanTask
    <3> QED BY <3>1 DEF ConstantsAssumption
  <2>4. Pending' = Pending
    BY <1>1, <2>1, <2>2, <2>3, ScanStays DEF SearchInv
  <2>5. UNCHANGED A!vars
    BY <1>1, <2>4, SessionStays
  <2> QED BY <2>1, <2>2, <2>5 DEF Simulated, ScanJudged, SnapshotJudged
<1>3. CASE /\ Running(unknownTask) /\ unknownTask' = [unknownTask EXCEPT !.state = "died"]
           /\ UNCHANGED scanTask
  <2>1. unknownTask # NoTask /\ unknownTask \in UnknownTask /\ scanTask = NoTask /\ scanTask' = NoTask
    BY <1>1, <1>3 DEF Running, TypeOK, OneScanAtATime
  <2>2. /\ unknownTask'.proc = unknownTask.proc /\ unknownTask'.cancel = unknownTask.cancel
        /\ unknownTask'.state = "died"
    BY <1>3, <2>1 DEF UnknownTask
  <2>3. unknownTask' # NoTask
    <3>1. unknownTask' \in UnknownTask
      BY <1>3, <2>1 DEF UnknownTask
    <3> QED BY <3>1 DEF ConstantsAssumption
  <2>4. Pending' = Pending
    BY <1>1, <2>1, <2>2, <2>3, SnapshotStays DEF SearchInv
  <2>5. UNCHANGED A!vars
    BY <1>1, <2>4, SessionStays
  <2> QED BY <2>1, <2>2, <2>5 DEF Simulated, ScanJudged, SnapshotJudged
<1> QED BY <1>2, <1>3 DEF WorkerDies

-----------------------------------------------------------------------------
(* A scan is cancelled, ends, or its process writes.                       *)

\* Setting one field of the record of a search.
LEMMA CancelledRecord ==
  ASSUME NEW op, NEW proc, NEW cmp, NEW base, NEW h, NEW c
  PROVE  [[op |-> op, proc |-> proc, cmp |-> cmp, base |-> base, held |-> h, cancelled |-> c]
            EXCEPT !.cancelled = TRUE]
           = [op |-> op, proc |-> proc, cmp |-> cmp, base |-> base, held |-> h, cancelled |-> TRUE]
<1> DEFINE s == [op |-> op, proc |-> proc, cmp |-> cmp, base |-> base, held |-> h, cancelled |-> c]
           new == [s EXCEPT !.cancelled = TRUE]
           all == [op |-> op, proc |-> proc, cmp |-> cmp, base |-> base, held |-> h,
                   cancelled |-> TRUE]
           Fields == {"op", "proc", "cmp", "base", "held", "cancelled"}
<1>1. DOMAIN new = Fields /\ new = [x \in DOMAIN new |-> new[x]]
  OBVIOUS
<1>2. DOMAIN all = Fields /\ all = [x \in DOMAIN all |-> all[x]]
  OBVIOUS
<1>3. new.cancelled = all.cancelled
  OBVIOUS
<1>4. /\ new.op = all.op /\ new.proc = all.proc /\ new.cmp = all.cmp
      /\ new.base = all.base /\ new.held = all.held
  OBVIOUS
<1> HIDE DEF new, all
<1>5. new = all
  BY <1>1, <1>2, <1>3, <1>4
<1> QED BY <1>5 DEF new, all

\* The cancel flag admits more answers.
LEMMA CancelSimulated ==
  ASSUME ConstantsAssumption, SearchInv, Remember, CancelScan \/ CancelUnknown
  PROVE  Simulated
<1>1. /\ TypeOK /\ OneScanAtATime /\ UNCHANGED <<mem, app>>
      /\ A!Regions(Pending) \subseteq Addr
  <2>1. A!Regions(Pending) \subseteq Addr
    <3>1. CASE scanTask # NoTask
      <4>1. scanTask.base \in Partial(Addr, Val)
        BY <3>1 DEF SearchInv, ResultInv, IInv, TypeOK, ScanTask
      <4> QED BY <3>1, <4>1, PendingScan, PartialElim DEF A!Regions
    <3>2. CASE scanTask = NoTask
      BY <3>2, PendingSnapshot DEF CancelScan, CancelUnknown, A!Regions
    <3> QED BY <3>1, <3>2
  <2> QED BY <2>1 DEF CancelScan, CancelUnknown, SearchInv, ResultInv, IInv
<1>2. CASE CancelScan
  <2>1. /\ scanTask # NoTask /\ scanTask \in ScanTask /\ unknownTask = NoTask
        /\ unknownTask' = NoTask /\ scanTask' = [scanTask EXCEPT !.cancel = TRUE]
    BY <1>1, <1>2 DEF CancelScan, TypeOK, OneScanAtATime
  <2>2. /\ scanTask'.op = scanTask.op /\ scanTask'.proc = scanTask.proc
        /\ scanTask'.cmp = scanTask.cmp /\ scanTask'.base = scanTask.base
        /\ scanTask'.state = scanTask.state /\ scanTask'.todo = scanTask.todo
        /\ scanTask'.out = scanTask.out /\ scanTask'.cancel = TRUE
    BY <2>1 DEF ScanTask
  <2>3. scanTask' # NoTask
    <3>1. scanTask' \in ScanTask
      BY <2>1 DEF ScanTask
    <3> QED BY <3>1 DEF ConstantsAssumption
  <2>4. held' = held
    BY <1>1, <2>1, <2>2, <2>3, HeldStays DEF SearchInv, PendingTask
  <2>5. Pending' = [Pending EXCEPT !.cancelled = TRUE]
    <3>1. Pending = [op |-> scanTask.op, proc |-> scanTask.proc, cmp |-> scanTask.cmp,
                     base |-> scanTask.base, held |-> held, cancelled |-> scanTask.cancel]
      BY <2>1 DEF Pending
    <3>2. Pending' = [op |-> scanTask.op, proc |-> scanTask.proc, cmp |-> scanTask.cmp,
                      base |-> scanTask.base, held |-> held, cancelled |-> TRUE]
      BY <2>2, <2>3, <2>4 DEF Pending
    <3> QED BY <3>1, <3>2, CancelledRecord
  <2>6. A!Cancel
    <3>1. Pending.op # "none"
      BY <2>1, PendingScan DEF ScanTask
    <3>2. ~A!Idle
      BY <3>1 DEF A!Idle, A!NoSearch
    <3> QED BY <1>1, <2>5, <3>2 DEF A!Cancel, app
  <2>7. ScanJudged'
    <3>1. /\ Pending'.op = Pending.op /\ Pending'.cmp = Pending.cmp
          /\ Pending'.base = Pending.base /\ Pending'.held = Pending.held /\ Pending'.cancelled
      BY <2>1, <2>2, <2>3, <2>4 DEF Pending
    <3>2. \A out : A!Answers(Pending, out) => A!Answers(Pending', out)
      BY <1>1, <3>1, AnswersGrow
    <3>3. \A todo, out : Judged(Pending, todo, out) => Judged(Pending', todo, out)
      <4>1. A!Regions(Pending') = A!Regions(Pending)
        BY <3>1 DEF A!Regions
      <4>2. \A a, out : A!Right(Pending, a, out) => A!Right(Pending', a, out)
        BY <3>1, RightGrows
      <4> QED BY <4>1, <4>2 DEF Judged
    <3> QED BY <2>1, <2>2, <3>2, <3>3 DEF SearchInv, ScanJudged
  <2> QED BY <2>1, <2>6, <2>7 DEF Simulated, SnapshotJudged, A!Next
<1>3. CASE CancelUnknown
  <2>1. /\ unknownTask # NoTask /\ unknownTask \in UnknownTask /\ scanTask = NoTask
        /\ scanTask' = NoTask /\ unknownTask' = [unknownTask EXCEPT !.cancel = TRUE]
    BY <1>1, <1>3 DEF CancelUnknown, TypeOK
  <2>2. /\ unknownTask'.proc = unknownTask.proc /\ unknownTask'.state = unknownTask.state
        /\ unknownTask'.todo = unknownTask.todo /\ unknownTask'.out = unknownTask.out
        /\ unknownTask'.cancel = TRUE
    BY <2>1 DEF UnknownTask
  <2>3. unknownTask' # NoTask
    <3>1. unknownTask' \in UnknownTask
      BY <2>1 DEF UnknownTask
    <3> QED BY <3>1 DEF ConstantsAssumption
  <2>4. held' = held
    BY <1>1, <2>1, <2>2, <2>3, HeldStays DEF SearchInv, PendingTask
  <2>5. Pending' = [Pending EXCEPT !.cancelled = TRUE]
    <3>1. Pending = [op |-> "snapshot", proc |-> unknownTask.proc, cmp |-> [kind |-> "none"],
                     base |-> NoMatches, held |-> held, cancelled |-> unknownTask.cancel]
      BY <2>1 DEF Pending
    <3>2. Pending' = [op |-> "snapshot", proc |-> unknownTask.proc, cmp |-> [kind |-> "none"],
                      base |-> NoMatches, held |-> held, cancelled |-> TRUE]
      BY <2>1, <2>2, <2>3, <2>4 DEF Pending
    <3> QED BY <3>1, <3>2, CancelledRecord
  <2>6. A!Cancel
    <3>1. ~A!Idle
      BY <2>1, PendingSnapshot DEF A!Idle, A!NoSearch
    <3> QED BY <1>1, <2>5, <3>1 DEF A!Cancel, app
  <2>7. SnapshotJudged'
    <3>1. /\ Pending'.op = Pending.op /\ Pending'.cmp = Pending.cmp
          /\ Pending'.base = Pending.base /\ Pending'.held = Pending.held /\ Pending'.cancelled
      BY <2>1, <2>2, <2>3, <2>4 DEF Pending
    <3>2. \A out : A!Answers(Pending, out) => A!Answers(Pending', out)
      BY <1>1, <3>1, AnswersGrow
    <3>3. \A todo, out : Judged(Pending, todo, out) => Judged(Pending', todo, out)
      <4>1. A!Regions(Pending') = A!Regions(Pending)
        BY <3>1 DEF A!Regions
      <4>2. \A a, out : A!Right(Pending, a, out) => A!Right(Pending', a, out)
        BY <3>1, RightGrows
      <4> QED BY <4>1, <4>2 DEF Judged
    <3> QED BY <2>1, <2>2, <3>2, <3>3 DEF SearchInv, SnapshotJudged
  <2> QED BY <2>1, <2>6, <2>7 DEF Simulated, ScanJudged, A!Next
<1> QED BY <1>2, <1>3

\* A poll shows the answer, or that there is none.
LEMMA PollSimulated ==
  ASSUME ConstantsAssumption, SearchInv, Remember, PollScanTask \/ PollUnknownTask
  PROVE  Simulated
<1>1. TypeOK /\ OneScanAtATime
  BY DEF SearchInv, ResultInv, IInv
<1>2. scanTask' = NoTask /\ unknownTask' = NoTask
  BY <1>1 DEF PollScanTask, PollUnknownTask, OneScanAtATime
<1>3. Pending' = A!NoSearch
  BY <1>2 DEF Pending, A!NoSearch
<1>4. CASE PollScanTask
  <2>1. scanTask # NoTask /\ scanTask \in ScanTask
    BY <1>1, <1>4 DEF PollScanTask, TypeOK
  <2>2. Pending.op \in {"first", "next", "unknown_next"}
    BY <2>1, PendingScan DEF ScanTask
  <2>3. ~A!Idle
    BY <2>2 DEF A!Idle, A!NoSearch
  <2>4. CASE scanTask.state = "sent"
    <3>1. A!Answers(Pending, scanTask.out) /\ scanTask.out \in Partial(Addr, Val)
      BY <2>1, <2>4 DEF SearchInv, ScanJudged, ScanTask
    <3>2. A!Deliver
      BY <1>3, <1>4, <2>2, <2>3, <2>4, <3>1, SameOperators DEF A!Deliver, PollScanTask
    <3> QED BY <1>2, <3>2 DEF A!Next, Simulated, ScanJudged, SnapshotJudged
  <2>5. CASE scanTask.state # "sent"
    <3>1. A!Fail
      BY <1>3, <1>4, <2>3, <2>5 DEF A!Fail, PollScanTask
    <3> QED BY <1>2, <3>1 DEF A!Next, Simulated, ScanJudged, SnapshotJudged
  <2> QED BY <2>4, <2>5
<1>5. CASE PollUnknownTask
  <2>1. unknownTask # NoTask /\ unknownTask \in UnknownTask /\ scanTask = NoTask
    BY <1>1, <1>5 DEF PollUnknownTask, TypeOK, OneScanAtATime
  <2>2. Pending.op = "snapshot"
    BY <2>1, PendingSnapshot
  <2>3. ~A!Idle
    BY <2>2 DEF A!Idle, A!NoSearch
  <2>4. CASE unknownTask.state = "sent"
    <3>1. A!Answers(Pending, unknownTask.out) /\ unknownTask.out \in Partial(Addr, Val)
      BY <2>1, <2>4 DEF SearchInv, SnapshotJudged, UnknownTask
    <3>2. A!Deliver
      BY <1>3, <1>5, <2>2, <2>3, <2>4, <3>1, SameOperators DEF A!Deliver, PollUnknownTask
    <3> QED BY <1>2, <3>2 DEF A!Next, Simulated, ScanJudged, SnapshotJudged
  <2>5. CASE unknownTask.state # "sent"
    <3>1. A!Fail
      BY <1>3, <1>5, <2>3, <2>5 DEF A!Fail, PollUnknownTask
    <3> QED BY <1>2, <3>1 DEF A!Next, Simulated, ScanJudged, SnapshotJudged
  <2> QED BY <2>4, <2>5
<1> QED BY <1>4, <1>5

\* A write to the process that is scanned is one more value to be right for.
LEMMA WriteSimulated ==
  ASSUME ConstantsAssumption, SearchInv, Remember,
         NEW p \in Proc, NEW a \in Addr, NEW v \in Val \cup {Unmapped}, ProcessWrites(p, a, v)
  PROVE  Simulated
<1>1. /\ TypeOK /\ OneScanAtATime /\ UNCHANGED <<app, scanTask, unknownTask>>
      /\ mem' = [mem EXCEPT ![p][a] = v] /\ PendingTask' = PendingTask
      /\ held \in [Addr -> SUBSET (Val \cup {Unmapped})]
  BY DEF ProcessWrites, SearchInv, ResultInv, IInv, PendingTask, HeldInv
<1>2. CASE PendingTask = NoTask
  <2>1. held' = NothingHeld /\ held = NothingHeld
    BY <1>1, <1>2 DEF Remember, SearchInv, HeldInv
  <2>2. scanTask = NoTask /\ unknownTask = NoTask
    BY <1>1, <1>2 DEF PendingTask
  <2>3. Pending' = Pending /\ A!Idle
    BY <1>1, <2>2 DEF Pending, A!Idle, A!NoSearch
  <2>4. A!Write(p, a, v)
    BY <1>1, <2>3 DEF A!Write, app
  <2>5. [A!Next]_(A!vars)
    BY <2>4 DEF A!Next
  <2> QED BY <1>1, <2>2, <2>5 DEF Simulated, ScanJudged, SnapshotJudged
<1>3. CASE PendingTask # NoTask
  <2>1. /\ held' = [b \in Addr |-> held[b] \cup {mem'[PendingTask.proc][b]}]
        /\ \A b \in Addr : mem[PendingTask.proc][b] \in held[b]
    BY <1>1, <1>3 DEF Remember, SearchInv, HeldInv
  <2>2. PendingTask.proc \in Proc
    BY <1>1, <1>3 DEF PendingTask, TypeOK, ScanTask, UnknownTask
  <2>3. /\ Pending.proc = PendingTask.proc /\ Pending.held = held
        /\ Pending.op \in {"first", "next", "unknown_next", "snapshot"}
        /\ A!Regions(Pending) \subseteq Addr
    <3>1. CASE scanTask # NoTask
      <4>1. scanTask.base \in Partial(Addr, Val) /\ scanTask.op \in {"first", "next", "unknown_next"}
        BY <1>1, <3>1 DEF TypeOK, ScanTask
      <4> QED BY <3>1, <4>1, PendingScan, PartialElim DEF PendingTask, A!Regions
    <3>2. CASE scanTask = NoTask
      BY <1>3, <3>2, PendingSnapshot DEF PendingTask, A!Regions
    <3> QED BY <3>1, <3>2
  <2>4. /\ Pending'.op = Pending.op /\ Pending'.cmp = Pending.cmp /\ Pending'.base = Pending.base
        /\ Pending'.cancelled = Pending.cancelled /\ Pending'.held = held'
    BY <1>1, <1>3 DEF Pending, PendingTask
  <2>5. \A b \in Addr : held[b] \subseteq held'[b]
    BY <2>1
  <2>6. A!Write(p, a, v)
    <3>1. ~A!Idle
      BY <2>3 DEF A!Idle, A!NoSearch
    <3>2. CASE PendingTask.proc = p
      <4>1. \A b \in Addr : mem'[p][b] = IF b = a THEN v ELSE mem[p][b]
        BY <1>1 DEF TypeOK
      <4>2. \A b \in Addr : held[b] \cup {mem'[p][b]} = IF b = a THEN held[b] \cup {v} ELSE held[b]
        BY <2>1, <3>2, <4>1
      <4>3. held' = [held EXCEPT ![a] = @ \cup {v}]
        BY <1>1, <2>1, <3>2, <4>2
      <4>4. Pending' = [Pending EXCEPT !.held[a] = @ \cup {v}]
        <5>1. CASE scanTask # NoTask
          <6>1. Pending = [op |-> scanTask.op, proc |-> scanTask.proc, cmp |-> scanTask.cmp,
                           base |-> scanTask.base, held |-> held,
                           cancelled |-> scanTask.cancel]
            BY <5>1 DEF Pending
          <6>2. Pending' = [op |-> scanTask.op, proc |-> scanTask.proc, cmp |-> scanTask.cmp,
                            base |-> scanTask.base, held |-> held',
                            cancelled |-> scanTask.cancel]
            BY <1>1, <5>1 DEF Pending
          <6> QED BY <4>3, <6>1, <6>2
        <5>2. CASE scanTask = NoTask
          <6>1. Pending = [op |-> "snapshot", proc |-> unknownTask.proc,
                           cmp |-> [kind |-> "none"], base |-> NoMatches, held |-> held,
                           cancelled |-> unknownTask.cancel]
            BY <1>3, <5>2 DEF Pending, PendingTask
          <6>2. Pending' = [op |-> "snapshot", proc |-> unknownTask.proc,
                            cmp |-> [kind |-> "none"], base |-> NoMatches, held |-> held',
                            cancelled |-> unknownTask.cancel]
            BY <1>1, <1>3, <5>2 DEF Pending, PendingTask
          <6> QED BY <4>3, <6>1, <6>2
        <5> QED BY <5>1, <5>2
      <4> QED BY <1>1, <2>3, <3>1, <3>2, <4>4 DEF A!Write, app
    <3>3. CASE PendingTask.proc # p
      <4>1. mem'[PendingTask.proc] = mem[PendingTask.proc]
        BY <1>1, <2>2, <3>3 DEF TypeOK
      <4>2. held' = held
        <5>1. \A b \in Addr : held[b] \cup {mem'[PendingTask.proc][b]} = held[b]
          BY <2>1, <4>1
        <5>2. held = [b \in Addr |-> held[b]]
          BY <1>1
        <5> QED BY <2>1, <5>1, <5>2
      <4>3. Pending' = Pending
        BY <1>1, <4>2 DEF Pending
      <4> QED BY <1>1, <2>3, <3>3, <4>3 DEF A!Write, app
    <3> QED BY <3>2, <3>3
  <2>7. [A!Next]_(A!vars)
    BY <2>6 DEF A!Next
  <2>8. \A out : A!Answers(Pending, out) => A!Answers(Pending', out)
    BY <2>3, <2>4, <2>5, AnswersGrow
  <2>9. \A todo, out : Judged(Pending, todo, out) => Judged(Pending', todo, out)
    <3>1. A!Regions(Pending') = A!Regions(Pending)
      BY <2>4 DEF A!Regions
    <3>2. \A b \in A!Regions(Pending) : \A out : A!Right(Pending, b, out) => A!Right(Pending', b, out)
      BY <2>3, <2>4, <2>5, RightGrows
    <3> QED BY <3>1, <3>2 DEF Judged
  <2>10. ScanJudged' /\ SnapshotJudged'
    BY <1>1, <2>8, <2>9 DEF SearchInv, ScanJudged, SnapshotJudged
  <2> QED BY <2>7, <2>10 DEF Simulated
<1> QED BY <1>2, <1>3

\* The steps that leave the tasks alone.
LEMMA ButtonSimulated ==
  ASSUME SearchInv, Remember, (\E p \in Proc : Attach(p)) \/ NewSearch
  PROVE  Simulated
<1>1. UNCHANGED <<mem, scanTask, unknownTask>>
  BY DEF Attach, NewSearch
<1>2. Pending' = Pending
  <2>1. held' = held
    <3>1. CASE PendingTask = NoTask
      BY <1>1, <3>1 DEF Remember, PendingTask, SearchInv, HeldInv
    <3>2. CASE PendingTask # NoTask
      BY <1>1, <3>2, HeldStays DEF PendingTask, SearchInv
    <3> QED BY <3>1, <3>2
  <2> QED BY <1>1, <2>1 DEF Pending
<1>3. ScanJudged' /\ SnapshotJudged'
  BY <1>1, <1>2 DEF SearchInv, ScanJudged, SnapshotJudged
<1>4. ASSUME NEW p \in Proc, Attach(p) PROVE A!Next
  BY <1>2, <1>4, SameOperators DEF A!Next, A!Attach, Attach
<1>5. CASE NewSearch
  <2>1. A!Idle
    BY <1>5 DEF NewSearch, Scanning, Pending, A!Idle, A!NoSearch
  <2> QED BY <1>2, <1>3, <1>5, <2>1, SameOperators DEF Simulated, A!Next, A!StartOver, NewSearch
<1> QED BY <1>3, <1>4, <1>5 DEF Simulated

-----------------------------------------------------------------------------
\* Every step of the session is one of Search or none.
THEOREM SearchStep == SearchInv /\ [HistoryNext]_<<vars, held>> => SearchInv' /\ [A!Next]_(A!vars)
<1> SUFFICES ASSUME SearchInv, [HistoryNext]_<<vars, held>>
             PROVE  SearchInv' /\ [A!Next]_(A!vars)
  OBVIOUS
<1> USE ConstantsAssumption
<1>1. CASE UNCHANGED <<vars, held>>
  <2>1. UNCHANGED <<mem, attached, matches, hasScanned, snapshot, scanTask, unknownTask, touched, held>>
    BY <1>1 DEF vars
  <2>2. Pending' = Pending /\ PendingTask' = PendingTask
    BY <2>1 DEF Pending, PendingTask
  <2>3. ResultInv'
    BY <1>1, ResultStep DEF SearchInv
  <2>4. HeldInv' /\ ScanJudged' /\ SnapshotJudged'
    BY <2>1, <2>2 DEF SearchInv, HeldInv, ScanJudged, SnapshotJudged
  <2>5. UNCHANGED A!vars
    BY <2>1, <2>2 DEF A!vars
  <2> QED BY <2>3, <2>4, <2>5 DEF SearchInv
<1>2. CASE HistoryNext
  <2>1. Next /\ Remember
    BY <1>2 DEF HistoryNext
  <2>2. ResultInv' /\ TypeOK'
    BY <2>1, ResultStep DEF SearchInv, ResultInv, IInv
  <2>3. HeldInv'
    BY <2>1, <2>2, HeldStep DEF SearchInv
  <2>4. Simulated
    <3>1. ASSUME NEW c \in Comparison, FirstScan(c) \/ NextScan(c) \/ UnknownNext(c)
          PROVE  Simulated
      BY <2>1, <3>1, StartSimulated
    <3>2. CASE UnknownFirst
      BY <2>1, <2>2, <3>2, UnknownFirstSimulated
    <3>3. CASE (\E p \in Proc : Attach(p)) \/ NewSearch
      BY <2>1, <3>3, ButtonSimulated
    <3>4. CASE CancelScan \/ CancelUnknown
      BY <2>1, <3>4, CancelSimulated
    <3>5. CASE ScanWorker
      BY <2>1, <2>2, <3>5, ScanTurnsSimulated, ScanSendSimulated DEF ScanWorker
    <3>6. CASE UnknownWorker
      BY <2>1, <3>6, SnapshotTurnSimulated, SnapshotSendSimulated DEF UnknownWorker
    <3>7. CASE PollScanTask \/ PollUnknownTask
      BY <2>1, <3>7, PollSimulated
    <3>8. CASE WorkerDies
      BY <2>1, <3>8, DeathSimulated
    <3>9. ASSUME NEW p \in Proc, NEW a \in Addr, NEW v \in Val \cup {Unmapped},
                 ProcessWrites(p, a, v)
          PROVE  Simulated
      BY <2>1, <3>9, WriteSimulated
    <3> QED BY <2>1, <3>1, <3>2, <3>3, <3>4, <3>5, <3>6, <3>7, <3>8, <3>9
            DEF Next, User, Environment
  <2> QED BY <2>2, <2>3, <2>4 DEF SearchInv, Simulated
<1> QED BY <1>1, <1>2

\* However the processes write while a worker reads them one region at a time, and
\* whatever is cancelled, attached or begun meanwhile, the session behaves as Search:
\* first_scan_job, next_scan_job, unknown_first_job, unknown_next_job and the polls.
THEOREM ImplementsSearch == HistorySpec => Search
<1>1. HistoryInit => SearchInv /\ A!Init
  <2> SUFFICES ASSUME HistoryInit PROVE SearchInv /\ A!Init
    OBVIOUS
  <2>1. Init /\ held = NothingHeld /\ scanTask = NoTask /\ unknownTask = NoTask
    BY DEF HistoryInit, Init
  <2>2. ResultInv
    BY <2>1, InitInvariant DEF ResultInv, ScanCorrect, SnapshotCorrect
  <2>3. HeldInv /\ ScanJudged /\ SnapshotJudged
    BY <2>1 DEF HeldInv, NothingHeld, PendingTask, ScanJudged, SnapshotJudged
  <2>4. A!Init
    BY <2>1, SameOperators DEF Init, A!Init, Pending, A!NoSearch
  <2> QED BY <2>2, <2>3, <2>4 DEF SearchInv
<1>2. SearchInv /\ [HistoryNext]_<<vars, held>> => SearchInv' /\ [A!Next]_(A!vars)
  BY SearchStep
<1> QED BY <1>1, <1>2, PTL DEF HistorySpec, Search, A!Spec
=============================================================================
