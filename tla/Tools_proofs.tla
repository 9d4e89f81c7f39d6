----------------------------- MODULE Tools_proofs -----------------------------
(* Three of the tools beside the scanner. No access escapes a watch, however    *)
(* many threads the game has, starts and ends, and however often a watch is     *)
(* started and stopped; an installation that says it succeeded is complete, and *)
(* what is registered can be uninstalled; and the pointer scan finds the chains *)
(* there are, all of them if nothing cuts it short.                             *)
EXTENDS PointerScan, Watch, Installer, Jobs, EventFeed, FiniteSetTheorems, TLAPS

-----------------------------------------------------------------------------
(* The watchpoint debugger: what makes each thread it counts armed.        *)

Kinds == {"create", "exit", "step", "over"}
Event == [kind : Kinds, thread : Thread]

\* What the arithmetic of the hits needs.
Types ==
  /\ started \in Nat /\ debugger \in Watches \cup {NoWatch}
  /\ loop \in [Watches -> {"none", "attach", "check", "wait", "ended"}]
  /\ threads \in [Watches -> SUBSET Thread]
  /\ hits \in [Watches -> Nat] /\ raised \in [Watches -> Nat] /\ unseen \in [Watches -> Nat]
  /\ events \subseteq Event
  /\ live \subseteq Thread /\ armed \subseteq Thread

\* The watch that is the debugger is in its loop, and no other watch is.
OneDebugger ==
  \A w \in Watches : loop[w] \in {"check", "wait"} <=> debugger = w

\* A watch that has not attached has seen nothing.
Fresh ==
  \A w \in Watches :
    /\ w > started => loop[w] = "none"
    /\ loop[w] \in {"none", "attach"} => raised[w] = 0 /\ hits[w] = 0

\* Only a debugger has events: those of the threads it finds, or the last thing the
\* game did, after which it is suspended.
Suspended ==
  /\ debugger = NoWatch => events = {}
  /\ \/ \A e \in events : e.kind = "create"
     \/ \E e : events = {e}

\* A thread the debugger has not set the register of has its creation to be handled.
EveryThreadArmed ==
  debugger # NoWatch =>
    \A t \in live : \/ t \in armed /\ t \in threads[debugger]
                    \/ [kind |-> "create", thread |-> t] \in events

\* A single step is of a thread the debugger knows, a thread that ended is not there.
StepsAreKnown ==
  /\ debugger # NoWatch => \A e \in events : e.kind = "step" => e.thread \in threads[debugger]
  /\ \A e \in events : e.kind = "exit" => e.thread \notin live

WtInv ==
  /\ Types /\ OneDebugger /\ Fresh /\ Suspended /\ EveryThreadArmed /\ StepsAreKnown
  /\ WatchSeesEveryAccess

-----------------------------------------------------------------------------
Steps(evs) == {e \in evs : e.kind = "step"}

LEMMA NoSteps ==
  ASSUME NEW evs, \A e \in evs : e.kind # "step"
  PROVE  Cardinality(Steps(evs)) = 0
<1>1. Steps(evs) = {}
  BY DEF Steps
<1> QED
  BY <1>1, FS_EmptySet

LEMMA OneStep ==
  ASSUME NEW e, e.kind = "step"
  PROVE  Cardinality(Steps({e})) = 1
<1>1. Steps({e}) = {e}
  BY DEF Steps
<1> QED
  BY <1>1, FS_Singleton

LEMMA InitWtInv ==
  ASSUME MaxWatches \in Nat, NoWatch \notin Watches
  PROVE  WtInit => WtInv
  BY DEF WtInit, WtInv, Types, OneDebugger, Fresh, Suspended, EveryThreadArmed, StepsAreKnown,
     WatchSeesEveryAccess, Event

\* While the game runs under a debugger every thread of it is armed and known.
LEMMA RunningIsArmed ==
  ASSUME WtInv, Runs, debugger # NoWatch
  PROVE  live \subseteq armed /\ live \subseteq threads[debugger]
  BY DEF WtInv, Runs, EveryThreadArmed

-----------------------------------------------------------------------------
(* The panel.                                                              *)

LEMMA StartKeeps ==
  ASSUME WtInv, MaxWatches \in Nat, StartWatch
  PROVE  WtInv'
<1> USE DEF WtInv
<1>1. /\ UNCHANGED <<threads, hits, debugger, events, live, armed, game, raised, unseen>>
      /\ started' = started + 1 /\ started + 1 \in Watches
      /\ loop' = [loop EXCEPT ![started + 1] = "attach"]
  BY DEF StartWatch, gameVars, Types, Watches
<1>2. loop[started + 1] = "none"
  BY <1>1 DEF Fresh, Types
<1>3. /\ Types' /\ OneDebugger' /\ EveryThreadArmed' /\ StepsAreKnown' /\ Suspended'
      /\ WatchSeesEveryAccess'
  <2>1. Types'
    BY <1>1 DEF Types
  <2>2. OneDebugger'
    BY <1>1, <1>2 DEF OneDebugger, Types
  <2>3. EveryThreadArmed' /\ StepsAreKnown' /\ Suspended' /\ WatchSeesEveryAccess'
    BY <1>1 DEF EveryThreadArmed, StepsAreKnown, Suspended, WatchSeesEveryAccess
  <2> QED
    BY <2>1, <2>2, <2>3
<1>4. Fresh'
  <2> SUFFICES ASSUME NEW w \in Watches
               PROVE  /\ w > started + 1 => loop'[w] = "none"
                      /\ loop'[w] \in {"none", "attach"} => raised[w] = 0 /\ hits[w] = 0
    BY <1>1 DEF Fresh
  <2>1. w \in Nat /\ started \in Nat
    BY DEF Watches, Types
  <2>2. CASE w = started + 1
    BY <1>2, <2>1, <2>2 DEF Fresh
  <2>3. CASE w # started + 1
    <3>1. loop'[w] = loop[w]
      BY <1>1, <2>3 DEF Types
    <3> QED
      BY <2>1, <3>1 DEF Fresh
  <2> QED
    BY <2>2, <2>3
<1> QED
  BY <1>3, <1>4

-----------------------------------------------------------------------------
(* debug_loop.                                                             *)

LEMMA AttachKeeps ==
  ASSUME WtInv, NoWatch \notin Watches, NEW w \in Watches, AttachDebugger(w)
  PROVE  WtInv'
<1> USE DEF WtInv
<1>1. /\ UNCHANGED <<started, threads, hits, live, armed, game, raised, unseen>>
      /\ loop[w] = "attach" /\ raised[w] = 0 /\ hits[w] = 0
  BY DEF AttachDebugger, gameVars, Fresh
<1>2. CASE debugger # NoWatch \/ game # "running"
  <2>1. /\ UNCHANGED <<debugger, events>> /\ loop' = [loop EXCEPT ![w] = "ended"]
    BY <1>2 DEF AttachDebugger
  <2>2. /\ Types' /\ EveryThreadArmed' /\ StepsAreKnown' /\ Suspended' /\ WatchSeesEveryAccess'
    BY <1>1, <2>1 DEF Types, EveryThreadArmed, StepsAreKnown, Suspended, WatchSeesEveryAccess
  <2>3. OneDebugger' /\ Fresh'
    BY <1>1, <2>1 DEF OneDebugger, Fresh, Types
  <2> QED
    BY <2>2, <2>3
<1>3. CASE debugger = NoWatch /\ game = "running"
  <2>1. /\ debugger' = w /\ events' = {[kind |-> "create", thread |-> t] : t \in live}
        /\ loop' = [loop EXCEPT ![w] = "check"]
    BY <1>3 DEF AttachDebugger
  <2>2. \A e \in events' : e.kind = "create" /\ e \in Event
    BY <2>1 DEF Types, Event, Kinds
  <2>3. Types'
    BY <1>1, <2>1, <2>2 DEF Types
  <2>4. OneDebugger' /\ Fresh'
    BY <1>1, <1>3, <2>1 DEF OneDebugger, Fresh, Types
  <2>5. Suspended' /\ EveryThreadArmed' /\ StepsAreKnown'
    BY <1>1, <2>1, <2>2 DEF Suspended, EveryThreadArmed, StepsAreKnown
  <2>6. Cardinality(Steps(events')) = 0
    BY <2>2, NoSteps
  <2>7. WatchSeesEveryAccess'
    <3>1. Cardinality({e \in events' : e.kind = "step"}) = 0
      BY <2>6 DEF Steps
    <3> QED
      BY <1>1, <1>3, <2>1, <3>1 DEF WatchSeesEveryAccess
  <2> QED
    BY <2>3, <2>4, <2>5, <2>7
<1> QED
  BY <1>2, <1>3

LEMMA CheckKeeps ==
  ASSUME WtInv, NoWatch \notin Watches, NEW w \in Watches, CheckQuit(w) \/ WaitTimesOut(w)
  PROVE  WtInv'
<1> USE DEF WtInv
<1>1. /\ UNCHANGED <<started, threads, hits, live, armed, raised, unseen>>
      /\ loop[w] \in {"check", "wait"} /\ debugger = w
  BY DEF CheckQuit, WaitTimesOut, gameVars, OneDebugger
<1>2. CASE debugger' = NoWatch /\ events' = {} /\ loop' = [loop EXCEPT ![w] = "ended"]
  <2>1. Types' /\ Fresh'
    BY <1>1, <1>2 DEF Types, Fresh
  <2>2. OneDebugger'
    BY <1>1, <1>2 DEF OneDebugger, Types
  <2>3. Suspended' /\ EveryThreadArmed' /\ StepsAreKnown' /\ WatchSeesEveryAccess'
    BY <1>1, <1>2 DEF Suspended, EveryThreadArmed, StepsAreKnown, WatchSeesEveryAccess
  <2> QED
    BY <2>1, <2>2, <2>3
<1>3. CASE /\ UNCHANGED <<debugger, events, game>>
           /\ \E to \in {"check", "wait"} : loop' = [loop EXCEPT ![w] = to]
  <2>1. Types' /\ Fresh' /\ OneDebugger'
    BY <1>1, <1>3 DEF Types, Fresh, OneDebugger
  <2>2. Suspended' /\ EveryThreadArmed' /\ StepsAreKnown' /\ WatchSeesEveryAccess'
    BY <1>1, <1>3 DEF Suspended, EveryThreadArmed, StepsAreKnown, WatchSeesEveryAccess
  <2> QED
    BY <2>1, <2>2
<1> QED
  BY <1>2, <1>3 DEF CheckQuit, WaitTimesOut, Detach, gameVars

LEMMA HandleKeeps ==
  ASSUME WtInv, NoWatch \notin Watches, NEW w \in Watches, HandleEvent(w)
  PROVE  WtInv'
<1> USE DEF WtInv
<1>1. /\ UNCHANGED <<started, live, game, raised, unseen>>
      /\ loop[w] = "wait" /\ debugger = w
  BY DEF HandleEvent, OneDebugger
<1>2. PICK e \in events :
        /\ events' = events \ {e}
        /\ CASE e.kind = "create" ->
                  /\ threads' = [threads EXCEPT ![w] = @ \cup {e.thread}]
                  /\ armed' = armed \cup {e.thread}
                  /\ UNCHANGED hits
             [] e.kind = "exit" ->
                  /\ threads' = [threads EXCEPT ![w] = @ \ {e.thread}]
                  /\ UNCHANGED <<armed, hits>>
             [] e.kind = "step" ->
                  /\ hits' = [hits EXCEPT ![w] = @ + (IF e.thread \in threads[w] THEN 1 ELSE 0)]
                  /\ UNCHANGED <<threads, armed>>
             [] e.kind = "over" -> UNCHANGED <<threads, armed, hits>>
        /\ IF e.kind = "over"
           THEN debugger' = NoWatch /\ loop' = [loop EXCEPT ![w] = "ended"]
           ELSE loop' = [loop EXCEPT ![w] = "check"] /\ UNCHANGED debugger
  BY DEF HandleEvent, Arm
<1>3. e \in Event /\ e.kind \in Kinds /\ e.thread \in Thread /\ e = [kind |-> e.kind, thread |-> e.thread]
  BY DEF Types, Event
<1>4. e.kind # "create" => events = {e}
  BY DEF Suspended
<1>5. /\ \A d \in events' : d \in events /\ d # e
      /\ \A d \in events : d # e => d \in events'
  BY <1>2
<1>6. CASE e.kind = "create"
  <2>1. /\ threads' = [threads EXCEPT ![w] = @ \cup {e.thread}] /\ armed' = armed \cup {e.thread}
        /\ UNCHANGED <<hits, debugger>> /\ loop' = [loop EXCEPT ![w] = "check"]
    BY <1>2, <1>6
  <2>2. threads'[w] = threads[w] \cup {e.thread}
    BY <2>1 DEF Types
  <2>3. Types'
    BY <1>1, <1>2, <1>3, <2>1 DEF Types
  <2>4. OneDebugger' /\ Fresh'
    BY <1>1, <2>1 DEF OneDebugger, Fresh, Types
  <2>5. \A d \in events' : d.kind = "create"
    BY <1>5, <1>6 DEF Suspended
  <2>6. Suspended' /\ StepsAreKnown'
    BY <1>1, <2>1, <2>5 DEF Suspended, StepsAreKnown
  <2>7. EveryThreadArmed'
    <3> SUFFICES ASSUME NEW t \in live
                 PROVE  \/ t \in armed' /\ t \in threads'[w]
                        \/ [kind |-> "create", thread |-> t] \in events'
      BY <1>1, <2>1 DEF EveryThreadArmed
    <3>1. CASE t = e.thread
      BY <2>1, <2>2, <3>1
    <3>2. CASE t # e.thread
      <4>1. [kind |-> "create", thread |-> t] # e
        BY <3>2
      <4>2. \/ t \in armed /\ t \in threads[w]
            \/ [kind |-> "create", thread |-> t] \in events
        BY <1>1 DEF EveryThreadArmed
      <4> QED
        BY <1>5, <2>1, <2>2, <4>1, <4>2
    <3> QED
      BY <3>1, <3>2
  <2>8. WatchSeesEveryAccess'
    <3>1. \A d \in events : d.kind = "create"
      BY <1>6 DEF Suspended
    <3>2. Cardinality(Steps(events)) = 0 /\ Cardinality(Steps(events')) = 0
      BY <2>5, <3>1, NoSteps
    <3> QED
      BY <1>1, <2>1, <3>2 DEF WatchSeesEveryAccess, Steps
  <2> QED
    BY <2>3, <2>4, <2>6, <2>7, <2>8
<1>7. CASE e.kind = "over"
  <2>1. /\ UNCHANGED <<threads, armed, hits>>
        /\ debugger' = NoWatch /\ loop' = [loop EXCEPT ![w] = "ended"] /\ events' = {}
    BY <1>2, <1>4, <1>7
  <2>2. Types' /\ OneDebugger' /\ Fresh'
    BY <1>1, <2>1 DEF Types, OneDebugger, Fresh
  <2>3. Suspended' /\ EveryThreadArmed' /\ StepsAreKnown' /\ WatchSeesEveryAccess'
    BY <1>1, <2>1 DEF Suspended, EveryThreadArmed, StepsAreKnown, WatchSeesEveryAccess
  <2> QED
    BY <2>2, <2>3
<1>8. CASE e.kind \in {"exit", "step"}
  <2>1. /\ events = {e} /\ events' = {} /\ UNCHANGED <<armed, debugger>>
        /\ loop' = [loop EXCEPT ![w] = "check"]
    BY <1>2, <1>4, <1>8
  <2>2. OneDebugger' /\ Suspended' /\ StepsAreKnown'
    BY <1>1, <2>1 DEF OneDebugger, Suspended, StepsAreKnown, Types
  <2>3. Cardinality(Steps(events')) = 0
    BY <2>1, NoSteps
  <2>4. \A t \in live : t \in armed /\ t \in threads[w]
    BY <1>1, <1>8, <2>1 DEF EveryThreadArmed
  <2>5. CASE e.kind = "exit"
    <3>1. threads' = [threads EXCEPT ![w] = @ \ {e.thread}] /\ UNCHANGED hits
      BY <1>2, <2>5
    <3>2. Types' /\ Fresh'
      BY <1>1, <2>1, <3>1 DEF Types, Fresh
    <3>3. WatchSeesEveryAccess'
      <4>1. Cardinality(Steps(events)) = 0
        BY <2>1, <2>5, NoSteps
      <4> QED
        BY <1>1, <2>1, <2>3, <3>1, <4>1 DEF WatchSeesEveryAccess, Steps
    <3>4. EveryThreadArmed'
      <4>1. \A t \in live : t # e.thread
        BY <2>5 DEF StepsAreKnown
      <4>2. threads'[w] = threads[w] \ {e.thread}
        BY <3>1 DEF Types
      <4> QED
        BY <1>1, <2>1, <2>4, <4>1, <4>2 DEF EveryThreadArmed
    <3> QED
      BY <2>2, <3>2, <3>3, <3>4
  <2>6. CASE e.kind = "step"
    <3>1. hits' = [hits EXCEPT ![w] = @ + 1] /\ UNCHANGED threads
      BY <1>1, <1>2, <2>6 DEF StepsAreKnown
    <3>2. Types'
      BY <1>1, <2>1, <3>1 DEF Types
    <3>3. Fresh'
      BY <1>1, <2>1, <3>1 DEF Types, Fresh
    <3>4. EveryThreadArmed'
      BY <1>1, <2>1, <2>4, <3>1 DEF EveryThreadArmed
    <3>5. WatchSeesEveryAccess'
      <4>1. Cardinality(Steps(events)) = 1
        BY <2>1, <2>6, OneStep
      <4>2. raised[w] = hits[w] + 1 /\ hits'[w] = hits[w] + 1 /\ hits[w] \in Nat
        BY <1>1, <3>1, <4>1 DEF WatchSeesEveryAccess, Steps, Types
      <4> QED
        BY <1>1, <2>1, <2>3, <4>2 DEF WatchSeesEveryAccess, Steps
    <3> QED
      BY <2>2, <3>2, <3>3, <3>4, <3>5
  <2> QED
    BY <1>8, <2>5, <2>6
<1> QED
  BY <1>3, <1>6, <1>7, <1>8 DEF Kinds

-----------------------------------------------------------------------------
(* The game.                                                               *)

\* Whatever the game does leaves the watches as they are, and is at most one event.
LEMMA GameKeeps ==
  ASSUME WtInv, Runs,
         UNCHANGED <<started, loop, threads, hits, debugger>>,
         NEW e \in Event,
         events' = IF debugger = NoWatch THEN {} ELSE {e},
         raised' = IF debugger # NoWatch /\ e.kind = "step"
                   THEN [raised EXCEPT ![debugger] = @ + 1] ELSE raised,
         unseen' = unseen,
         live' \subseteq Thread, armed' \subseteq Thread, live' \ live \subseteq {e.thread},
         live' \ live # {} => e.kind = "create",
         e.kind = "exit" => e.thread \notin live',
         e.kind = "step" => e.thread \in live,
         armed \cap live' \subseteq armed', debugger # NoWatch => game' # "killed"
  PROVE  WtInv'
<1> USE DEF WtInv
<1>1. events = {} /\ Cardinality(Steps(events)) = 0
  BY NoSteps DEF Runs
<1>2. Types'
  BY DEF Types
<1>3. OneDebugger' /\ Suspended'
  BY DEF OneDebugger, Suspended
<1>4. CASE debugger = NoWatch
  BY <1>2, <1>3, <1>4 DEF Fresh, EveryThreadArmed, StepsAreKnown, WatchSeesEveryAccess
<1>5. CASE debugger # NoWatch
  <2>1. debugger \in Watches /\ loop[debugger] \in {"check", "wait"} /\ events' = {e}
    BY <1>5 DEF Types, OneDebugger
  <2>2. live \subseteq armed /\ live \subseteq threads[debugger]
    BY <1>5, RunningIsArmed
  <2>3. Fresh'
    BY <2>1 DEF Fresh, Types
  <2>4. EveryThreadArmed'
    <3> SUFFICES ASSUME NEW t \in live'
                 PROVE  \/ t \in armed' /\ t \in threads[debugger]
                        \/ [kind |-> "create", thread |-> t] \in events'
      BY DEF EveryThreadArmed
    <3>1. CASE t \in live
      BY <2>2, <3>1
    <3>2. CASE t \notin live
      BY <2>1, <3>2 DEF Event
    <3> QED
      BY <3>1, <3>2
  <2>5. StepsAreKnown'
    BY <2>1, <2>2 DEF StepsAreKnown
  <2>6. WatchSeesEveryAccess'
    <3>1. raised[debugger] = hits[debugger]
      BY <1>1, <1>5, <2>1 DEF WatchSeesEveryAccess, Steps, Types
    <3>2. CASE e.kind = "step"
      <4>1. Cardinality(Steps(events')) = 1
        BY <2>1, <3>2, OneStep
      <4>2. raised'[debugger] = raised[debugger] + 1
        BY <1>5, <2>1, <3>2 DEF Types
      <4> QED
        BY <3>1, <4>1, <4>2, <1>5 DEF WatchSeesEveryAccess, Steps
    <3>3. CASE e.kind # "step"
      <4>1. Cardinality(Steps(events')) = 0
        BY <2>1, <3>3, NoSteps
      <4> QED
        BY <2>1, <3>1, <3>3, <4>1, <1>5 DEF WatchSeesEveryAccess, Steps, Types
    <3> QED
      BY <3>2, <3>3
  <2> QED
    BY <1>2, <1>3, <2>3, <2>4, <2>5, <2>6
<1> QED
  BY <1>4, <1>5

LEMMA AccessKeeps ==
  ASSUME WtInv, NEW t \in Thread, Access(t)
  PROVE  WtInv'
<1> DEFINE e == [kind |-> "step", thread |-> t]
<1> USE DEF WtInv
<1>1. /\ UNCHANGED <<started, loop, threads, hits, debugger, live, armed>>
      /\ Runs /\ t \in live
  BY DEF Access
<1>2. e \in Event /\ e.kind = "step" /\ e.thread = t
  BY DEF Event, Kinds
<1>3. CASE debugger = NoWatch
  <2>1. events' = {} /\ raised' = raised /\ unseen' = unseen
    BY <1>1, <1>3 DEF Access, Runs
  <2> QED
    BY <1>1, <1>2, <1>3, <2>1, GameKeeps DEF Types
<1>4. CASE debugger # NoWatch
  <2>1. t \in armed
    BY <1>1, <1>4, RunningIsArmed
  <2>2. /\ events' = {e} /\ raised' = [raised EXCEPT ![debugger] = @ + 1]
        /\ unseen' = unseen /\ game' = game
    BY <1>4, <2>1 DEF Access, Report
  <2>3. game' # "killed"
    BY <1>4, <2>2 DEF WatchSeesEveryAccess
  <2> QED
    BY <1>1, <1>2, <1>4, <2>2, <2>3, GameKeeps DEF Types
<1> QED
  BY <1>3, <1>4

LEMMA ThreadsKeep ==
  ASSUME WtInv, CreateThread \/ ExitThread \/ GameOver
  PROVE  WtInv'
<1> USE DEF WtInv
<1>1. /\ UNCHANGED <<started, loop, threads, hits, debugger, raised, unseen>> /\ Runs
      /\ debugger # NoWatch => game # "killed"
  BY DEF CreateThread, ExitThread, GameOver, WatchSeesEveryAccess
<1>2. CASE CreateThread
  <2>1. PICK t \in Thread \ live : live' = live \cup {t} /\ Report("create", t)
    BY <1>2 DEF CreateThread
  <2>2. armed' = armed /\ game' = game
    BY <1>2 DEF CreateThread
  <2>3. [kind |-> "create", thread |-> t] \in Event
    BY <2>1 DEF Event, Kinds
  <2> QED
    BY <1>1, <2>1, <2>2, <2>3, GameKeeps DEF Report, Types
<1>3. CASE ExitThread
  <2>1. PICK t \in live : live' = live \ {t} /\ armed' = armed \ {t} /\ Report("exit", t)
    BY <1>3 DEF ExitThread
  <2>2. game' = game
    BY <1>3 DEF ExitThread
  <2>3. [kind |-> "exit", thread |-> t] \in Event
    BY <2>1 DEF Event, Kinds, Types
  <2> QED
    BY <1>1, <2>1, <2>2, <2>3, GameKeeps DEF Report, Types
<1>4. CASE GameOver
  <2>1. PICK t \in live : Report("over", t)
    BY <1>4 DEF GameOver
  <2>2. game' = "over" /\ live' = {} /\ armed' = {}
    BY <1>4 DEF GameOver
  <2>3. [kind |-> "over", thread |-> t] \in Event
    BY <2>1 DEF Event, Kinds, Types
  <2> QED
    BY <1>1, <2>1, <2>2, <2>3, GameKeeps DEF Report, Types
<1> QED
  BY <1>2, <1>3, <1>4

-----------------------------------------------------------------------------
LEMMA NextWtInv ==
  ASSUME MaxWatches \in Nat, NoWatch \notin Watches
  PROVE  WtInv /\ [WtNext]_wtVars => WtInv'
<1> SUFFICES ASSUME WtInv, [WtNext]_wtVars PROVE WtInv'
  OBVIOUS
<1>1. CASE UNCHANGED wtVars
  BY <1>1 DEF wtVars, WtInv, Types, OneDebugger, Fresh, Suspended, EveryThreadArmed,
     StepsAreKnown, WatchSeesEveryAccess
<1>2. CASE StopWatch
  BY <1>2 DEF StopWatch, gameVars, WtInv, Types, OneDebugger, Fresh, Suspended,
     EveryThreadArmed, StepsAreKnown, WatchSeesEveryAccess
<1>3. CASE CloseQuarry
  <2>1. /\ debugger' = NoWatch /\ events' = {}
        /\ loop' = [w \in Watches |-> IF loop[w] = "none" THEN "none" ELSE "ended"]
        /\ UNCHANGED <<started, threads, hits, live, armed, raised, unseen>>
    BY <1>3 DEF CloseQuarry
  <2>2. Types'
    <3>1. \A w \in Watches : loop[w] \in {"none", "attach", "check", "wait", "ended"}
      BY DEF WtInv, Types
    <3> QED BY <2>1, <3>1 DEF WtInv, Types
  <2>3. OneDebugger' /\ Fresh'
    BY <2>1 DEF WtInv, Types, OneDebugger, Fresh
  <2>4. Suspended' /\ EveryThreadArmed' /\ StepsAreKnown' /\ WatchSeesEveryAccess'
    BY <2>1 DEF WtInv, Suspended, EveryThreadArmed, StepsAreKnown, WatchSeesEveryAccess
  <2> QED BY <2>2, <2>3, <2>4 DEF WtInv
<1> QED
  BY <1>1, <1>2, <1>3, StartKeeps, AttachKeeps, CheckKeeps, HandleKeeps, AccessKeeps, ThreadsKeep
     DEF WtNext

\* While a watch is the game's debugger no access escapes it, of whichever thread and
\* however soon after its creation, each is counted once, and none ends the game
\* (debug_loop, arm_thread, consume_hit): for any number of threads, watches, accesses.
THEOREM NoAccessEscapes == WtSpec => []WatchSeesEveryAccess
<1>1. WtInit => WtInv
  BY InitWtInv, WatchConstants
<1>2. WtInv /\ [WtNext]_wtVars => WtInv'
  BY NextWtInv, WatchConstants
<1>3. WtInv => WatchSeesEveryAccess
  BY DEF WtInv
<1> QED
  BY <1>1, <1>2, <1>3, PTL DEF WtSpec

\* What the counts of a watch are bounded by, and the rest of what its type asks for.
Bounded ==
  /\ accesses \in 0..MaxAccesses
  /\ \A w \in Watches : hits[w] <= raised[w] /\ raised[w] <= accesses

Rest ==
  /\ mvWatch \in Watches \cup {NoWatch} /\ started \in 0..MaxWatches
  /\ quit \in [Watches -> BOOLEAN]
  /\ status \in [Watches -> {"none", "attaching", "failed", "monitoring", "stopped"}]
  /\ game \in {"running", "killed", "over"} /\ armed \subseteq live
  /\ \A e \in events : e.kind = "create" => e.thread \in live

WtTypes == WtInv /\ Bounded /\ Rest

\* At most one event is a step.
LEMMA FewSteps ==
  ASSUME NEW evs, \/ \A e \in evs : e.kind = "create"
                  \/ \E e : evs = {e}
  PROVE  Cardinality(Steps(evs)) \in Nat
<1>1. CASE \A e \in evs : e.kind # "step"
  BY <1>1, NoSteps
<1>2. CASE \E e \in evs : e.kind = "step"
  <2>1. PICK e : evs = {e} /\ e.kind = "step"
    BY <1>2
  <2> QED
    BY <2>1, OneStep
<1> QED
  BY <1>1, <1>2

LEMMA BoundedKeeps ==
  ASSUME WtTypes, [WtNext]_wtVars, WtInv'
  PROVE  Bounded'
<1> USE DEF WtTypes
<1>1. \A w \in Watches : hits[w] \in Nat /\ raised[w] \in Nat
  BY DEF WtInv, Types
<1>2. CASE UNCHANGED <<hits, raised, accesses>>
  BY <1>2 DEF Bounded
<1>3. ASSUME NEW w \in Watches, HandleEvent(w) PROVE Bounded'
  <2>1. raised' = raised /\ accesses' = accesses /\ debugger = w
    BY <1>3 DEF HandleEvent, WtInv, OneDebugger
  <2>2. \A v \in Watches \ {w} : hits'[v] = hits[v]
    <3>1. PICK e \in events :
            \/ hits' = hits
            \/ hits' = [hits EXCEPT ![w] = @ + (IF e.thread \in threads[w] THEN 1 ELSE 0)]
      <4>1. \A e \in events : e.kind \in Kinds
        BY DEF WtInv, Types, Event
      <4> QED
        BY <1>3, <4>1 DEF HandleEvent, Kinds
    <3> QED
      BY <3>1 DEF WtInv, Types
  <2>3. hits' = hits \/ debugger' = w
    <3>1. PICK e \in events :
            /\ e.kind = "over" => hits' = hits
            /\ e.kind # "over" => debugger' = debugger
      BY <1>3 DEF HandleEvent
    <3> QED
      BY <2>1, <3>1
  <2>4. hits'[w] <= raised[w]
    <3>1. CASE hits' = hits
      BY <3>1 DEF Bounded
    <3>2. CASE debugger' = w
      <4>1. Cardinality(Steps(events')) \in Nat
        BY FewSteps DEF WtInv, Suspended
      <4>2. raised'[w] = hits'[w] + Cardinality(Steps(events'))
        BY <3>2, WatchConstants DEF WtInv, WatchSeesEveryAccess, Steps
      <4>3. hits'[w] \in Nat
        BY DEF WtInv, Types
      <4> QED
        BY <2>1, <4>1, <4>2, <4>3
    <3> QED
      BY <2>3, <3>1, <3>2
  <2> QED
    BY <2>1, <2>2, <2>4 DEF Bounded
<1>4. ASSUME NEW t \in Thread, Access(t) PROVE Bounded'
  <2>1. accesses' = accesses + 1 /\ accesses + 1 \in 0..MaxAccesses /\ hits' = hits
    BY <1>4, WatchConstants DEF Access, Bounded
  <2>2. \A w \in Watches : raised'[w] \in {raised[w], raised[w] + 1}
    BY <1>4 DEF Access, WtInv, Types
  <2> QED
    BY <1>1, <2>1, <2>2 DEF Bounded
<1> QED
  BY <1>2, <1>3, <1>4
     DEF WtNext, wtVars, gameVars, StartWatch, StopWatch, AttachDebugger, CheckQuit, WaitTimesOut,
         CreateThread, ExitThread, GameOver, CloseQuarry

LEMMA RestKeeps ==
  ASSUME WtTypes, [WtNext]_wtVars, WtInv'
  PROVE  Rest'
<1> USE DEF WtTypes
<1>1. CASE UNCHANGED wtVars
  BY <1>1 DEF wtVars, Rest
<1>2. CASE StartWatch
  <2>1. started + 1 \in Watches /\ started + 1 \in 0..MaxWatches
    BY <1>2, WatchConstants DEF StartWatch, Rest, Watches
  <2> QED
    BY <1>2, <2>1 DEF StartWatch, Dropped, gameVars, Rest
<1>3. CASE StopWatch
  BY <1>3 DEF StopWatch, Dropped, gameVars, Rest
<1>4. ASSUME NEW w \in Watches, AttachDebugger(w) PROVE Rest'
  BY <1>4 DEF AttachDebugger, gameVars, Rest
<1>5. ASSUME NEW w \in Watches, CheckQuit(w) \/ WaitTimesOut(w) PROVE Rest'
  BY <1>5 DEF CheckQuit, WaitTimesOut, Detach, gameVars, Rest
<1>6. ASSUME NEW w \in Watches, HandleEvent(w) PROVE Rest'
  <2>1. /\ UNCHANGED <<mvWatch, started, quit, live, game>>
        /\ \/ status' = [status EXCEPT ![w] = "stopped"]
           \/ status' = status
    BY <1>6 DEF HandleEvent
  <2>2. PICK e \in events :
          /\ events' = events \ {e}
          /\ armed' = armed \/ (e.kind = "create" /\ armed' = armed \cup {e.thread})
    <3>1. \A e \in events : e.kind \in Kinds
      BY DEF WtInv, Types, Event
    <3> QED
      BY <1>6, <3>1 DEF HandleEvent, Arm, Kinds
  <2> QED
    BY <2>1, <2>2 DEF Rest
<1>7. CASE CreateThread \/ ExitThread \/ GameOver
  BY <1>7 DEF CreateThread, ExitThread, GameOver, Report, Rest
<1>8. ASSUME NEW t \in Thread, Access(t) PROVE Rest'
  BY <1>8 DEF Access, Report, Runs, Rest
<1>9. CASE CloseQuarry
  BY <1>9 DEF CloseQuarry, Rest
<1> QED
  BY <1>1, <1>2, <1>3, <1>4, <1>5, <1>6, <1>7, <1>8, <1>9 DEF WtNext

LEMMA NextWtTypes == WtTypes /\ [WtNext]_wtVars => WtTypes'
<1> SUFFICES ASSUME WtTypes, [WtNext]_wtVars PROVE WtTypes'
  OBVIOUS
<1>1. WtInv'
  BY NextWtInv, WatchConstants DEF WtTypes
<1> QED
  BY <1>1, BoundedKeeps, RestKeeps DEF WtTypes

LEMMA InitWtTypes == WtInit => WtTypes
<1> SUFFICES ASSUME WtInit PROVE WtTypes
  OBVIOUS
<1>1. WtInv
  BY InitWtInv, WatchConstants
<1>2. Bounded /\ Rest
  BY WatchConstants DEF WtInit, Bounded, Rest
<1> QED
  BY <1>1, <1>2 DEF WtTypes

LEMMA WtTypesAreTypes == WtTypes => WtTypeOK
<1> SUFFICES ASSUME WtTypes PROVE WtTypeOK
  OBVIOUS
<1> USE DEF WtTypes, WtInv
<1>1. ASSUME NEW w \in Watches
      PROVE  /\ hits[w] \in 0..MaxAccesses /\ raised[w] \in 0..MaxAccesses
             /\ unseen[w] \in 0..MaxAccesses
  <2>1. unseen[w] = 0 /\ hits[w] \in Nat /\ raised[w] \in Nat
    BY DEF WatchSeesEveryAccess, Types
  <2> QED
    BY <2>1, WatchConstants DEF Bounded
<1>2. \A e \in events : e.kind \in {"create", "exit", "step", "over"} /\ e.thread \in Thread
  BY DEF Types, Event, Kinds
<1>3. ASSUME NEW w \in Watches
      PROVE  /\ loop[w] \in {"none", "attach", "check", "wait", "ended"}
             /\ status[w] \in {"none", "attaching", "failed", "monitoring", "stopped"}
             /\ quit[w] \in BOOLEAN /\ threads[w] \subseteq Thread
  BY DEF Types, Rest
<1> QED
  BY <1>1, <1>2, <1>3 DEF WtTypeOK, Types, Bounded, Rest

\* The watches, what the game has for them and what they know of its threads keep their
\* types, and no watch counts more accesses than there were (debug_loop).
THEOREM WatchTypes == WtSpec => []WtTypeOK
  BY InitWtTypes, NextWtTypes, WtTypesAreTypes, PTL DEF WtSpec

-----------------------------------------------------------------------------
(* The installer: what makes its success complete.                         *)

Succeeded == stage = "finished" /\ ~error

\* What each step of do_install leaves behind is there as long as no uninstaller
\* works beside it.
Progress ==
  ~overlap =>
    /\ (stage \in {"uninstaller", "shortcuts", "name", "command"} \/ Succeeded)
         => Files \subseteq disk[dir]
    /\ (stage \in {"shortcuts", "name", "command"} \/ Succeeded) => "uninstaller" \in disk[dir]
    /\ (stage \in {"name", "command"} \/ Succeeded) => shortcuts = dir
    /\ (stage = "command" \/ Succeeded) => listed
    /\ Succeeded => command = dir

\* The thread works while the wizard shows it or what it did.
WizardShows == stage # "idle" => step \in {"installing", "done"}

Installing == step \in {"installing", "done"}

\* The registered folder has its uninstaller and keeps it, unless it is orphaned; what an
\* uninstaller does and what waits for its removal is beside no installation.
Registered ==
  ~overlap =>
    /\ doomed # {} => ~Installing
    /\ (remover # NoDir /\ undoing # "asked") => ~Installing
    /\ (command # NoDir /\ command \notin orphaned) =>
         /\ "uninstaller" \in disk[command] /\ command \notin doomed
         /\ remover = command => undoing # "folder"

InInv == InTypeOK /\ Progress /\ WizardShows /\ Registered

\* Nothing is installed at first.
THEOREM InitInInv == InInit => InInv
<1> SUFFICES ASSUME InInit PROVE InInv
  OBVIOUS
<1>1. disk \in Disks /\ runs \in 0..MaxRuns
  BY InstallerConstants DEF InInit, Disks
<1>2. InTypeOK
  BY <1>1 DEF InInit, InTypeOK
<1>3. Progress /\ WizardShows /\ Registered
  BY DEF InInit, Progress, Succeeded, WizardShows, Registered, Installing
<1> QED BY <1>2, <1>3 DEF InInv

\* A step cut short takes no uninstaller but that of a folder it makes an orphan.
LEMMA BrokenOffKeeps ==
  ASSUME InTypeOK, BrokenOff
  PROVE  /\ disk' \in Disks /\ orphaned' \subseteq Dir /\ shortcuts' \in Dir \cup {NoDir}
         /\ orphaned \subseteq orphaned'
         /\ \A d \in Dir : "uninstaller" \in disk[d] /\ d \notin orphaned' => "uninstaller" \in disk'[d]
<1>1. PICK lost \in SUBSET (Files \cup {"uninstaller"}) :
        /\ disk' = [disk EXCEPT ![dir] = @ \ lost]
        /\ orphaned' = orphaned \cup (IF "uninstaller" \in lost \cap disk[dir] THEN {dir} ELSE {})
  BY DEF BrokenOff
<1>2. disk' \in Disks
  BY <1>1 DEF InTypeOK, Disks
<1>3. orphaned' \subseteq Dir /\ orphaned \subseteq orphaned'
  BY <1>1 DEF InTypeOK
<1>4. shortcuts' \in Dir \cup {NoDir}
  BY DEF BrokenOff, InTypeOK
<1>5. \A d \in Dir : "uninstaller" \in disk[d] /\ d \notin orphaned' => "uninstaller" \in disk'[d]
  BY <1>1 DEF InTypeOK, Disks
<1> QED BY <1>2, <1>3, <1>4, <1>5

\* The steps of the wizard before and after the installation (Wizard::update).
LEMMA WizardSteps ==
  ASSUME InInv, OpenWizard \/ Accept \/ NextStep \/ BackStep \/ SeeDone
  PROVE  InInv'
<1> USE DEF installs, removes, ghosts
<1>1. InTypeOK'
  <2>1. CASE OpenWizard
    <3>1. runs' \in 0..MaxRuns /\ dir' \in Dir
      BY <2>1, InstallerConstants DEF InInv, InTypeOK, OpenWizard
    <3>2. step' = "welcome" /\ accepted' = FALSE /\ stage' = "idle" /\ error' = FALSE
          /\ UNCHANGED <<disk, shortcuts, listed, command, remover, undoing, doomed, overlap,
                        orphaned>>
      BY <2>1 DEF OpenWizard
    <3> QED BY <3>1, <3>2 DEF InInv, InTypeOK
  <2>2. CASE Accept
    <3>1. accepted' \in BOOLEAN /\ step = "license"
      BY <2>2 DEF InInv, InTypeOK, Accept
    <3> QED BY <2>2, <3>1 DEF InInv, InTypeOK, Accept
  <2>3. CASE NextStep \/ BackStep
    BY <2>3 DEF InInv, InTypeOK, NextStep, BackStep
  <2>4. CASE SeeDone
    BY <2>4 DEF InInv, InTypeOK, SeeDone
  <2> QED BY <2>1, <2>2, <2>3, <2>4
<1>2. Progress'
  BY DEF InInv, InTypeOK, Progress, WizardShows, Succeeded, OpenWizard, Accept, NextStep,
     BackStep, SeeDone
<1>3. WizardShows'
  BY DEF InInv, WizardShows, OpenWizard, Accept, NextStep, BackStep, SeeDone
<1>4. Registered'
  BY DEF InInv, Registered, Installing, OpenWizard, Accept, NextStep, BackStep, SeeDone
<1> QED BY <1>1, <1>2, <1>3, <1>4 DEF InInv

\* The button that starts the thread; an uninstaller at work overlaps it (start_install).
LEMMA InstallStep == ASSUME InInv, Install PROVE InInv'
<1>1. InTypeOK'
  <2>1. overlap' \in BOOLEAN
    BY DEF Install
  <2>2. step' = "installing" /\ stage' = "files" /\ step = "options"
        /\ UNCHANGED <<accepted, dir, error, disk, shortcuts, listed, command, remover, undoing,
                      doomed, orphaned, runs>>
    BY DEF Install, removes
  <2> QED BY <2>1, <2>2 DEF InInv, InTypeOK
<1>2. Progress' /\ WizardShows'
  BY DEF Progress, WizardShows, Succeeded, Install
<1>3. Registered'
  BY DEF InInv, Registered, Installing, Install, removes
<1> QED BY <1>1, <1>2, <1>3 DEF InInv

\* What do_install does, one step after the other.
LEMMA InstallingSteps ==
  ASSUME InInv,
         CopyFile \/ FilesCopied \/ CopyUninstaller \/ MakeShortcuts \/ WriteName \/ WriteCommand
  PROVE  InInv'
<1> USE DEF wizard, removes, ghosts, After, Advance
<1>1. InTypeOK'
  <2>1. CASE CopyFile
    <3>1. disk' \in Disks
      BY <2>1 DEF InInv, InTypeOK, Disks, CopyFile
    <3> QED BY <2>1, <3>1 DEF InInv, InTypeOK, CopyFile
  <2>2. CASE FilesCopied
    BY <2>2 DEF InInv, InTypeOK, FilesCopied
  <2>3. CASE CopyUninstaller
    <3>1. disk' \in Disks
      BY <2>3 DEF InInv, InTypeOK, Disks, CopyUninstaller
    <3>2. stage = "uninstaller" /\ stage' = "shortcuts" /\ orphaned' = orphaned \ {dir}
          /\ UNCHANGED <<step, accepted, dir, error, shortcuts, listed, command, remover, undoing,
                        doomed, overlap, runs>>
      BY <2>3 DEF CopyUninstaller
    <3> QED BY <3>1, <3>2 DEF InInv, InTypeOK
  <2>4. CASE MakeShortcuts \/ WriteCommand
    BY <2>4 DEF InInv, InTypeOK, MakeShortcuts, WriteCommand
  <2>5. CASE WriteName
    BY <2>5 DEF InInv, InTypeOK, WriteName
  <2> QED BY <2>1, <2>2, <2>3, <2>4, <2>5
<1>2. Progress'
  BY DEF InInv, InTypeOK, Disks, Progress, Succeeded, CopyFile, FilesCopied, CopyUninstaller,
     MakeShortcuts, WriteName, WriteCommand
<1>3. WizardShows'
  BY DEF InInv, WizardShows, CopyFile, FilesCopied, CopyUninstaller, MakeShortcuts, WriteName,
     WriteCommand
<1>4. Registered'
  <2>1. ~overlap => doomed = {} /\ (remover # NoDir => undoing = "asked")
    BY DEF InInv, WizardShows, Registered, Installing, CopyFile, FilesCopied, CopyUninstaller,
       MakeShortcuts, WriteName, WriteCommand
  <2>2. UNCHANGED <<remover, undoing, doomed, overlap, step, dir>>
    BY DEF CopyFile, FilesCopied, CopyUninstaller, MakeShortcuts, WriteName, WriteCommand
  <2>3. ~overlap /\ command' # NoDir /\ command' \notin orphaned' => "uninstaller" \in disk'[command']
    BY DEF InInv, InTypeOK, Disks, Progress, Registered, CopyFile, FilesCopied,
       CopyUninstaller, MakeShortcuts, WriteName, WriteCommand
  <2>4. ~overlap /\ remover # NoDir => undoing' # "folder"
    BY <2>1, <2>2
  <2>5. command' # NoDir /\ remover' = command' => remover # NoDir
    BY <2>2
  <2> QED BY <2>1, <2>2, <2>3, <2>4, <2>5 DEF Registered
<1> QED BY <1>1, <1>2, <1>3, <1>4 DEF InInv

\* A step fails, or the process ends in it: what was done stays, and nothing further is
\* done (do_install).
LEMMA BrokenOffSteps == ASSUME InInv, StepFails \/ CloseWizard PROVE InInv'
<1> USE DEF wizard, removes
<1>1. /\ BrokenOff /\ step' \in {step, "closed"} /\ stage' \in {"idle", "finished"}
      /\ stage' = "finished" => stage # "idle" /\ error' = TRUE /\ step' = step
      /\ error' = error \/ error' = TRUE
      /\ UNCHANGED <<accepted, dir, listed, command, remover, undoing, doomed, overlap, runs>>
  <2>1. BrokenOff /\ UNCHANGED <<accepted, dir, listed, command, remover, undoing, doomed, overlap, runs>>
    BY DEF StepFails, CloseWizard
  <2>2. \/ stage # "idle" /\ stage' = "finished" /\ error' = TRUE /\ step' = step
        \/ stage' = "idle" /\ step' = "closed" /\ error' = error
    BY DEF StepFails, CloseWizard, Working
  <2> QED BY <2>1, <2>2
<1>2. InTypeOK'
  <2>1. disk' \in Disks /\ orphaned' \subseteq Dir /\ shortcuts' \in Dir \cup {NoDir}
    BY <1>1, BrokenOffKeeps DEF InInv
  <2>2. error' \in BOOLEAN
    BY <1>1 DEF InInv, InTypeOK
  <2> QED BY <1>1, <2>1, <2>2 DEF InInv, InTypeOK
<1>3. Progress' /\ WizardShows'
  BY <1>1 DEF InInv, Progress, WizardShows, Succeeded
<1>4. Registered'
  <2>1. command # NoDir => command \in Dir
    BY DEF InInv, InTypeOK
  <2> QED BY <1>1, <2>1, BrokenOffKeeps DEF InInv, Registered, Installing
<1> QED BY <1>2, <1>3, <1>4 DEF InInv

\* The uninstaller, and the command that removes the folder after it (do_uninstall).
LEMMA UninstallerSteps ==
  ASSUME InInv,
         OpenUninstaller \/ DeleteShortcuts \/ DeleteKey \/ ScheduleRemoval \/ CloseUninstaller
           \/ RemoveFolder
  PROVE  InInv'
<1> USE DEF wizard, installs, ghosts, Overlapped, Undoes
<1>1. CASE OpenUninstaller
  <2>1. runs' \in 0..MaxRuns /\ remover' \in Dir /\ undoing' = "asked"
    BY <1>1, InstallerConstants DEF InInv, InTypeOK, OpenUninstaller
  <2>2. UNCHANGED <<step, accepted, dir, stage, error, disk, shortcuts, listed, command, doomed,
                   overlap, orphaned>>
    BY <1>1 DEF OpenUninstaller
  <2>3. InTypeOK'
    BY <2>1, <2>2 DEF InInv, InTypeOK
  <2> QED BY <2>1, <2>2, <2>3
          DEF InInv, Progress, Succeeded, WizardShows, Registered, Installing
<1>2. CASE CloseUninstaller
  <2>1. UNCHANGED <<step, accepted, dir, stage, error, disk, shortcuts, listed, command, undoing,
                   doomed, overlap, orphaned, runs>> /\ remover' = NoDir
    BY <1>2 DEF CloseUninstaller
  <2>2. InTypeOK'
    BY <2>1 DEF InInv, InTypeOK
  <2> QED BY <2>1, <2>2 DEF InInv, Progress, Succeeded, WizardShows, Registered, Installing
<1>3. CASE DeleteShortcuts \/ DeleteKey \/ ScheduleRemoval
  <2>1. /\ UNCHANGED <<step, accepted, dir, stage, error, disk, remover, runs>>
        /\ overlap' \in BOOLEAN /\ remover \in Dir
        /\ ~overlap' => ~overlap /\ ~Installing /\ stage = "idle"
    BY <1>3 DEF InInv, InTypeOK, WizardShows, Installing, DeleteShortcuts, DeleteKey,
       ScheduleRemoval
  <2>2. InTypeOK'
    <3>1. CASE DeleteShortcuts
      BY <2>1, <3>1 DEF InInv, InTypeOK, DeleteShortcuts
    <3>2. CASE DeleteKey
      <4>1. /\ listed' \in BOOLEAN /\ command' \in Dir \cup {NoDir} /\ orphaned' \subseteq Dir
            /\ undoing' = "folder"
        BY <2>1, <3>2 DEF InInv, InTypeOK, DeleteKey
      <4>2. UNCHANGED <<shortcuts, doomed>>
        BY <3>2 DEF DeleteKey
      <4> QED BY <2>1, <4>1, <4>2 DEF InInv, InTypeOK
    <3>3. CASE ScheduleRemoval
      BY <2>1, <3>3 DEF InInv, InTypeOK, ScheduleRemoval
    <3> QED BY <1>3, <3>1, <3>2, <3>3
  <2>3. Progress' /\ WizardShows'
    BY <2>1 DEF InInv, Progress, Succeeded, WizardShows
  <2>4. Registered'
    <3>1. CASE DeleteShortcuts
      BY <2>1, <3>1 DEF InInv, Registered, Installing, DeleteShortcuts
    <3>2. CASE DeleteKey
      BY <2>1, <3>2 DEF InInv, Registered, Installing, DeleteKey
    <3>3. CASE ScheduleRemoval
      BY <2>1, <3>3 DEF InInv, Registered, Installing, ScheduleRemoval
    <3> QED BY <1>3, <3>1, <3>2, <3>3
  <2> QED BY <2>2, <2>3, <2>4 DEF InInv
<1>4. CASE RemoveFolder
  <2>1. PICK d \in doomed :
          /\ doomed' = doomed \ {d}
          /\ \E kept \in SUBSET (disk[d] \cap {"program"}) :
               disk' = [disk EXCEPT
                 ![d] = kept \cup (IF remover = d THEN disk[d] \cap {"uninstaller"} ELSE {})]
    BY <1>4 DEF RemoveFolder
  <2>2. disk' \in Disks /\ doomed' \subseteq Dir /\ \A e \in Dir \ {d} : disk'[e] = disk[e]
    BY <2>1 DEF InInv, InTypeOK, Disks, Files
  <2>3. /\ UNCHANGED <<step, accepted, dir, stage, error, shortcuts, listed, command, remover,
                      undoing, orphaned, runs>>
        /\ overlap' \in BOOLEAN
        /\ ~overlap' => ~overlap /\ ~Installing /\ stage = "idle"
    BY <1>4 DEF InInv, WizardShows, Installing, RemoveFolder
  <2>4. InTypeOK'
    BY <2>2, <2>3 DEF InInv, InTypeOK
  <2>5. Progress' /\ WizardShows'
    BY <2>3 DEF InInv, Progress, Succeeded, WizardShows
  <2>6. Registered'
    <3>1. command # NoDir => command \in Dir
      BY DEF InInv, InTypeOK
    <3> QED BY <2>1, <2>2, <2>3, <3>1 DEF InInv, Registered, Installing
  <2> QED BY <2>4, <2>5, <2>6 DEF InInv
<1> QED BY <1>1, <1>2, <1>3, <1>4

LEMMA NextInInv == InInv /\ [InNext]_inVars => InInv'
<1> SUFFICES ASSUME InInv, [InNext]_inVars PROVE InInv'
  OBVIOUS
<1>1. CASE UNCHANGED inVars
  BY <1>1 DEF inVars, InInv, InTypeOK, Progress, Succeeded, WizardShows, Registered, Installing
<1> QED
  BY <1>1, WizardSteps, InstallStep, InstallingSteps, BrokenOffSteps, UninstallerSteps DEF InNext

\* The invariant holds however often the two programs are run, closed or fail.
THEOREM InstallerInv == InSpec => []InInv
<1> QED BY InitInInv, NextInInv, PTL DEF InSpec

\* The variables of the installer keep their types, over any folders and runs.
THEOREM InstallerTypes == InSpec => []InTypeOK
<1>1. InInv => InTypeOK
  BY DEF InInv
<1> QED BY <1>1, InstallerInv, PTL

\* A success is complete and whatever is listed can be uninstalled, as long as no removal
\* overlaps an installation, unless that folder's uninstaller was lost in a second
\* installation or has removed the folder and not the key, wherever a step fails or a
\* process ends: for any folders and any number of runs.
THEOREM InstallSound == InSpec => []InstallIsSound
<1>1. InInv => InstallIsSound
  BY InstallerConstants DEF InInv, InTypeOK, Disks, Progress, Succeeded, Registered,
     InstallIsSound, Complete, Files
<1> QED BY <1>1, InstallerInv, PTL

-----------------------------------------------------------------------------
(* The pointer scan: the order of the map.                                 *)

Entries == [addr : Nat, val : Nat]

\* The number of entries of S before an entry.
Rank(S, e) == Cardinality({f \in S : Before(f, e)})

\* No two entries of a set have the same number of entries before them.
LEMMA RanksDiffer ==
  ASSUME NEW S \in SUBSET Entries, IsFiniteSet(S)
  PROVE  /\ \A e \in S : Rank(S, e) \in 0..(Cardinality(S) - 1)
         /\ \A e, f \in S : Rank(S, e) = Rank(S, f) => e = f
<1> DEFINE Less(e) == {f \in S : Before(f, e)}
<1>1. \A e \in S : IsFiniteSet(Less(e)) /\ e \notin Less(e)
  BY FS_Subset DEF Before, Entries
<1>2. \A e \in S : Rank(S, e) \in Nat /\ Rank(S, e) < Cardinality(S)
  <2> SUFFICES ASSUME NEW e \in S PROVE Rank(S, e) \in Nat /\ Rank(S, e) < Cardinality(S)
    OBVIOUS
  <2>1. Less(e) \in SUBSET S /\ Less(e) # S
    BY <1>1
  <2>2. Cardinality(Less(e)) \in Nat /\ Cardinality(S) \in Nat
    BY <1>1, FS_CardinalityType
  <2>3. Cardinality(Less(e)) <= Cardinality(S) /\ Cardinality(Less(e)) # Cardinality(S)
    BY <2>1, FS_Subset
  <2> QED BY <2>2, <2>3 DEF Rank
<1>3. ASSUME NEW e \in S, NEW f \in S, Before(e, f) PROVE Rank(S, e) < Rank(S, f)
  <2>1. Less(e) \in SUBSET Less(f) /\ e \in Less(f) /\ e \notin Less(e)
    BY <1>1, <1>3 DEF Before, Entries
  <2>2. Cardinality(Less(e)) <= Cardinality(Less(f)) /\ Cardinality(Less(e)) # Cardinality(Less(f))
    BY <1>1, <2>1, FS_Subset
  <2> QED BY <1>2, <2>2 DEF Rank
<1>4. \A e, f \in S : e = f \/ Before(e, f) \/ Before(f, e)
  BY DEF Before, Entries
<1> HIDE DEF Less
<1> QED
  <2>1. \A e \in S : Rank(S, e) \in 0..(Cardinality(S) - 1)
    BY <1>2, FS_CardinalityType
  <2>2. ASSUME NEW e \in S, NEW f \in S, Rank(S, e) = Rank(S, f) PROVE e = f
    BY <1>2, <1>3, <1>4, <2>2
  <2> QED BY <2>1, <2>2

\* Sorted lists every entry of a set once (sort_by_key).
LEMMA SortedLists ==
  ASSUME NEW S \in SUBSET Entries, IsFiniteSet(S)
  PROVE  /\ Sorted(S) \in Seq(S)
         /\ \A j, k \in 1..Len(Sorted(S)) : Sorted(S)[j] = Sorted(S)[k] => j = k
         /\ \A e \in S : \E j \in 1..Len(Sorted(S)) : Sorted(S)[j] = e
<1> DEFINE n == Cardinality(S)
           ranks == [e \in S |-> Rank(S, e)]
<1>1. n \in Nat
  BY FS_CardinalityType
<1>2. IsFiniteSet(0..(n - 1)) /\ Cardinality(0..(n - 1)) = n
  BY <1>1, FS_Interval
<1>3. ranks \in Injection(S, 0..(n - 1))
  BY RanksDiffer DEF Injection, IsInjective
<1>4. ranks \in Surjection(S, 0..(n - 1))
  BY <1>2, <1>3, FS_Injection
<1>5. \A j \in 1..n : \E e \in S : Rank(S, e) = j - 1
  <2>1. \A i \in 0..(n - 1) : \E e \in S : ranks[e] = i
    BY <1>4 DEF Surjection
  <2>2. \A j \in 1..n : j - 1 \in 0..(n - 1)
    BY <1>1
  <2> QED BY <2>1, <2>2
<1>6. Sorted(S) = [j \in 1..n |-> CHOOSE e \in S : Rank(S, e) = j - 1]
  BY DEF Sorted, Rank
<1>7. \A j \in 1..n : Sorted(S)[j] \in S /\ Rank(S, Sorted(S)[j]) = j - 1
  BY <1>5, <1>6
<1>8. Sorted(S) \in Seq(S) /\ Len(Sorted(S)) = n
  BY <1>1, <1>6, <1>7
<1> HIDE DEF ranks
<1>9. \A e \in S : Rank(S, e) + 1 \in 1..n /\ Sorted(S)[Rank(S, e) + 1] = e
  BY <1>1, <1>7, RanksDiffer
<1> HIDE DEF n
<1> QED BY <1>1, <1>7, <1>8, <1>9

-----------------------------------------------------------------------------
(* The chains, read from the target backwards as the search finds them.    *)

\* The entries that may follow an address on the way back.
Reach(t) == {e \in map : LowestBase(t) <= e.val /\ e.val <= t}

\* The map tells every address it knows one value.
MapOK ==
  /\ map \in SUBSET Entries /\ IsFiniteSet(map)
  /\ \A e, f \in map : e.addr = f.addr => e = f

\* The k-th address of a chain counted from the target, and what it leads to.
Back(c, k) == c[Len(c) - k + 1]
Aim(c, k)  == IF k = 1 THEN target ELSE Back(c, k - 1)

\* A step back from an address in reach of it.
StepsBack(c, k) ==
  /\ Back(c, k) \in Static <=> k = Len(c)
  /\ \E e \in Reach(Aim(c, k)) : e.addr = Back(c, k)

LEMMA InReach ==
  ASSUME MapOK, NEW t \in Nat, NEW e \in map
  PROVE  e \in Reach(t) <=> t - e.val \in 0..MaxOffset
BY PointerConstants DEF MapOK, Reach, LowestBase, Entries

LEMMA EntryIs ==
  ASSUME MapOK, NEW e \in map
  PROVE  Entry(e.addr) = e
BY DEF MapOK, Entry

\* A chain is a sequence of steps back from the target that ends at the first address
\* inside a module.
LEMMA ChainsStepBack ==
  ASSUME MapOK, target \in Nat, NEW c \in Chains
  PROVE  /\ Len(c) \in 1..MaxDepth /\ c \in [1..Len(c) -> Nat]
         /\ \A k \in 1..Len(c) : StepsBack(c, k)
<1>1. PICK n \in 1..MaxDepth : c \in [1..n -> {e.addr : e \in map}] /\ Leads(c)
  BY DEF Chains, ChainsOfLength
<1>2. n \in Nat \ {0} /\ c \in [1..n -> Nat]
  BY <1>1, PointerConstants DEF MapOK, Entries
<1>3. Len(c) = n /\ DOMAIN c = 1..n
  BY <1>2
<1>4. c[1] \in Static /\ \A j \in 2..n : c[j] \notin Static
  BY <1>1, <1>3 DEF Leads
<1>5. ASSUME NEW k \in 1..n PROVE StepsBack(c, k)
  <2> DEFINE j == n - k + 1
  <2>1. j \in 1..n /\ Back(c, k) = c[j] /\ (j = 1 <=> k = n) /\ (j = n <=> k = 1)
    BY <1>2, <1>3 DEF Back
  <2>2. Aim(c, k) = IF j = n THEN target ELSE c[j + 1]
    BY <1>2, <1>3 DEF Aim, Back
  <2>3. Aim(c, k) \in Nat
    BY <1>2, <2>1, <2>2
  <2>4. PICK e \in map : e.addr = c[j]
    BY <1>1, <1>3, <2>1 DEF Leads
  <2>5. Aim(c, k) - Entry(c[j]).val \in 0..MaxOffset
    BY <1>1, <1>3, <2>1, <2>2 DEF Leads
  <2>6. e \in Reach(Aim(c, k))
    BY <2>3, <2>4, <2>5, InReach, EntryIs
  <2>7. c[j] \in Static <=> j = 1
    BY <1>4, <2>1
  <2> QED BY <1>3, <2>1, <2>4, <2>6, <2>7 DEF StepsBack
<1> QED BY <1>1, <1>2, <1>3, <1>5

LEMMA StepsBackChain ==
  ASSUME MapOK, target \in Nat, NEW n \in 1..MaxDepth, NEW c \in [1..n -> Nat],
         \A k \in 1..n : StepsBack(c, k)
  PROVE  c \in Chains
<1>1. n \in Nat \ {0} /\ Len(c) = n /\ DOMAIN c = 1..n
  BY PointerConstants
<1>2. ASSUME NEW j \in 1..n
      PROVE  /\ \E e \in map : e.addr = c[j]
             /\ c[j] \in Static <=> j = 1
             /\ (IF j = n THEN target ELSE c[j + 1]) - Entry(c[j]).val \in 0..MaxOffset
  <2> DEFINE k == n - j + 1
  <2>1. k \in 1..n /\ Back(c, k) = c[j] /\ (j = 1 <=> k = n)
    BY <1>1 DEF Back
  <2>2. Aim(c, k) = IF j = n THEN target ELSE c[j + 1]
    BY <1>1 DEF Aim, Back
  <2>3. Aim(c, k) \in Nat
    BY <1>1, <2>2
  <2>4. StepsBack(c, k)
    BY <2>1
  <2>5. PICK e \in Reach(Aim(c, k)) : e.addr = c[j]
    BY <2>1, <2>4 DEF StepsBack
  <2>6. e \in map /\ Aim(c, k) - Entry(c[j]).val \in 0..MaxOffset
    BY <2>3, <2>5, InReach, EntryIs DEF Reach
  <2>7. c[j] \in Static <=> j = 1
    BY <1>1, <2>1, <2>4 DEF StepsBack
  <2> QED BY <2>2, <2>5, <2>6, <2>7
<1>3. c \in [1..n -> {e.addr : e \in map}]
  BY <1>1, <1>2
<1>4. Leads(c)
  BY <1>1, <1>2 DEF Leads
<1> QED BY <1>3, <1>4 DEF Chains, ChainsOfLength

\* A chain is known by its steps.
LEMMA SameSteps ==
  ASSUME NEW n \in Nat, NEW c \in [1..n -> Nat], NEW d \in [1..n -> Nat],
         \A k \in 1..n : Back(c, k) = Back(d, k)
  PROVE  c = d
<1>1. Len(c) = n /\ Len(d) = n
  OBVIOUS
<1>2. ASSUME NEW j \in 1..n PROVE c[j] = d[j]
  <2>1. n - j + 1 \in 1..n /\ n - (n - j + 1) + 1 = j
    OBVIOUS
  <2> QED BY <1>1, <2>1 DEF Back
<1> QED BY <1>2

-----------------------------------------------------------------------------
(* The calls of the search.                                                *)

Call == [target : Nat, rest : Seq(map)]

\* The entries a call has not come to.
Waiting(calls, j) == {calls[j].rest[k] : k \in 1..Len(calls[j].rest)}

\* Every call goes through entries in reach of its target, each once, and its target
\* is an entry the call before it has taken.
StackOK(calls) ==
  /\ calls \in Seq(Call) /\ Len(calls) <= MaxDepth
  /\ calls # <<>> => calls[1].target = target
  /\ \A j \in 1..Len(calls) :
       /\ Waiting(calls, j) \subseteq Reach(calls[j].target)
       /\ \A k, m \in 1..Len(calls[j].rest) : calls[j].rest[k] = calls[j].rest[m] => k = m
  /\ \A j \in 2..Len(calls) :
       /\ calls[j].target \notin Static
       /\ \E e \in Reach(calls[j - 1].target) \ Waiting(calls, j - 1) : e.addr = calls[j].target

\* A chain waits in a call if the targets of the calls are its addresses so far and
\* the entry of the next is still to be taken.
Agrees(c, calls, j) == \A i \in 2..j : calls[i].target = Back(c, i - 1)
Waits(c, calls, j) ==
  /\ j <= Len(c) /\ Agrees(c, calls, j)
  /\ \E e \in Waiting(calls, j) : e.addr = Back(c, j)
Pending(c, calls) == \E j \in 1..Len(calls) : Waits(c, calls, j)

LEMMA FrontIs ==
  ASSUME NEW S, NEW s \in Seq(S), s # <<>>
  PROVE  /\ Front(s) \in Seq(S) /\ Len(Front(s)) = Len(s) - 1
         /\ \A j \in 1..(Len(s) - 1) : Front(s)[j] = s[j]
         /\ Len(s) \in Nat \ {0} /\ Last(s) = s[Len(s)] /\ s[Len(s)] \in S
<1>1. Len(s) \in Nat \ {0} /\ s[Len(s)] \in S
  OBVIOUS
<1>2. SubSeq(s, 1, Len(s) - 1) = [j \in 1..(Len(s) - 1) |-> s[j]]
  BY <1>1
<1>3. Front(s) = [j \in 1..(Len(s) - 1) |-> s[j]]
  BY <1>2 DEF Front
<1>4. Len(s) - 1 \in Nat /\ \A j \in 1..(Len(s) - 1) : s[j] \in S
  BY <1>1
<1> QED BY <1>1, <1>3, <1>4 DEF Last

\* What a call on a target starts with.
LEMMA FrameIs ==
  ASSUME MapOK, NEW t \in Nat
  PROVE  /\ CallFor(t) \in Call /\ CallFor(t).target = t
         /\ \A calls, j : calls[j] = CallFor(t) => Waiting(calls, j) = Reach(t)
         /\ \A k, m \in 1..Len(CallFor(t).rest) : CallFor(t).rest[k] = CallFor(t).rest[m] => k = m
<1>1. Reach(t) \in SUBSET Entries /\ Reach(t) \subseteq map /\ IsFiniteSet(Reach(t))
  BY FS_Subset DEF Reach, MapOK
<1>2. Reaching(t) = Sorted(Reach(t))
  BY DEF Reaching, Reach
<1> DEFINE rest == Reaching(t)
           reach == Reach(t)
<1>3. /\ rest \in Seq(reach)
      /\ \A j, k \in 1..Len(rest) : rest[j] = rest[k] => j = k
      /\ \A e \in reach : \E j \in 1..Len(rest) : rest[j] = e
  BY <1>1, <1>2, SortedLists
<1>4. reach \subseteq map
  BY <1>1
<1>5. CallFor(t) = [target |-> t, rest |-> rest]
  BY DEF CallFor
<1> HIDE DEF rest, reach
<1>6. \A k \in 1..Len(rest) : rest[k] \in reach
  BY <1>3
<1>7. {rest[k] : k \in 1..Len(rest)} = reach
  BY <1>3, <1>6
<1>8. rest \in Seq(map)
  BY <1>3, <1>4
<1>9. CallFor(t) \in Call /\ CallFor(t).target = t /\ CallFor(t).rest = rest
  BY <1>5, <1>8 DEF Call
<1>10. \A calls, j : calls[j] = CallFor(t) => Waiting(calls, j) = reach
  BY <1>7, <1>9 DEF Waiting
<1> QED BY <1>3, <1>9, <1>10 DEF reach

\* The entry taken is one of those waiting in the last call, and is no more.
LEMMA SkippedIs ==
  ASSUME MapOK, StackOK(stack), stack # <<>>, Top.rest # <<>>
  PROVE  /\ Skipped \in Seq(Call) /\ Len(Skipped) = Len(stack) /\ Len(stack) \in 1..MaxDepth
         /\ \A j \in 1..Len(stack) : Skipped[j].target = stack[j].target
         /\ Taken \in Waiting(stack, Len(stack))
         /\ Waiting(Skipped, Len(stack)) = Waiting(stack, Len(stack)) \ {Taken}
         /\ \A j \in 1..(Len(stack) - 1) : Skipped[j] = stack[j] /\ Waiting(Skipped, j) = Waiting(stack, j)
         /\ \A k, m \in 1..Len(Skipped[Len(stack)].rest) :
              Skipped[Len(stack)].rest[k] = Skipped[Len(stack)].rest[m] => k = m
<1> DEFINE L == Len(stack)
           rest == stack[L].rest
<1>1. stack \in Seq(Call) /\ L \in Nat /\ L \in 1..MaxDepth
  BY PointerConstants DEF StackOK
<1>2. stack[L] \in Call /\ Top = stack[L] /\ rest \in Seq(map) /\ rest # <<>> /\ Taken = rest[1]
  <2>1. stack[L] \in Call /\ Top = stack[L]
    BY <1>1, FrontIs DEF Top
  <2>2. rest \in Seq(map)
    BY <2>1 DEF Call
  <2> QED BY <2>1, <2>2 DEF Taken
<1>3. Front(stack) \in Seq(Call) /\ Len(Front(stack)) = L - 1
      /\ \A j \in 1..(L - 1) : Front(stack)[j] = stack[j]
  BY <1>1, FrontIs
<1>4. Tail(rest) \in Seq(map) /\ Len(Tail(rest)) = Len(rest) - 1
      /\ \A k \in 1..(Len(rest) - 1) : Tail(rest)[k] = rest[k + 1]
  BY <1>2
<1> DEFINE last == [Top EXCEPT !.rest = Tail(@)]
<1>5. last \in Call /\ last.target = stack[L].target /\ last.rest = Tail(rest)
  BY <1>2, <1>4 DEF Call
<1>6. Skipped = Append(Front(stack), last)
  BY DEF Skipped
<1> HIDE DEF last
<1>7. Skipped \in Seq(Call) /\ Len(Skipped) = L /\ Skipped[L] = last
      /\ \A j \in 1..(L - 1) : Skipped[j] = stack[j]
  BY <1>1, <1>3, <1>5, <1>6
<1>8. \A j \in 1..L : Skipped[j].target = stack[j].target
  <2>1. \A j \in 1..L : j = L \/ j \in 1..(L - 1)
    BY <1>1
  <2> QED BY <1>5, <1>7, <2>1
<1>9. \A k, m \in 1..Len(rest) : rest[k] = rest[m] => k = m
  BY <1>1 DEF StackOK
<1>10. {Tail(rest)[k] : k \in 1..Len(Tail(rest))} = {rest[k] : k \in 1..Len(rest)} \ {rest[1]}
  <2>1. Len(rest) \in Nat \ {0}
    BY <1>2
  <2>2. \A k \in 1..(Len(rest) - 1) : k + 1 \in 1..Len(rest) /\ k + 1 # 1
    BY <2>1
  <2>3. \A k \in 1..Len(rest) : k # 1 => k - 1 \in 1..(Len(rest) - 1) /\ k - 1 + 1 = k
    BY <2>1
  <2>4. 1 \in 1..Len(rest)
    BY <2>1
  <2> HIDE DEF rest
  <2>5. ASSUME NEW k \in 1..Len(Tail(rest))
        PROVE  Tail(rest)[k] \in {rest[i] : i \in 1..Len(rest)} \ {rest[1]}
    BY <1>4, <1>9, <2>2, <2>4
  <2>6. ASSUME NEW k \in 1..Len(rest), rest[k] # rest[1]
        PROVE  \E i \in 1..Len(Tail(rest)) : Tail(rest)[i] = rest[k]
    BY <1>4, <2>3, <2>6
  <2> QED BY <2>5, <2>6
<1>11. Waiting(Skipped, L) = Waiting(stack, L) \ {Taken}
  <2>1. Skipped[L].rest = Tail(rest)
    BY <1>5, <1>7
  <2>2. Waiting(Skipped, L) = {Tail(rest)[k] : k \in 1..Len(Tail(rest))}
    BY <2>1 DEF Waiting
  <2>3. Waiting(stack, L) = {rest[k] : k \in 1..Len(rest)}
    BY DEF Waiting
  <2> HIDE DEF rest
  <2> QED BY <1>2, <1>10, <2>2, <2>3
<1>12. Taken \in Waiting(stack, L)
  BY <1>2 DEF Waiting
<1>13. \A k, m \in 1..Len(last.rest) : last.rest[k] = last.rest[m] => k = m
  <2>1. Len(rest) \in Nat \ {0}
    BY <1>2
  <2>2. \A k \in 1..(Len(rest) - 1) : k + 1 \in 1..Len(rest)
    BY <2>1
  <2> HIDE DEF rest
  <2> QED BY <1>4, <1>5, <1>9, <2>1, <2>2
<1>14. \A j \in 1..(L - 1) : Waiting(Skipped, j) = Waiting(stack, j)
  BY <1>7 DEF Waiting
<1> QED BY <1>1, <1>7, <1>8, <1>11, <1>12, <1>13, <1>14

\* The targets of the calls and the entry taken in the last are a chain's first steps.
LEMMA TakenOnce ==
  ASSUME MapOK, StackOK(stack), stack # <<>>, Top.rest # <<>>,
         NEW c, Agrees(c, stack, Len(stack)), Taken.addr = Back(c, Len(stack))
  PROVE  \A j \in 1..Len(stack) : ~ Waits(c, Skipped, j)
<1> DEFINE L == Len(stack)
<1>1. Taken \in map /\ \A j \in 1..L : Waiting(stack, j) \subseteq map
  BY SkippedIs DEF StackOK, Reach
<1>2. ~ Waits(c, Skipped, L)
  <2>1. \A e \in Waiting(Skipped, L) : e \in map /\ e # Taken
    BY <1>1, SkippedIs
  <2> QED BY <1>1, <2>1 DEF Waits, MapOK
<1>3. ASSUME NEW j \in 1..(L - 1) PROVE ~ Waits(c, Skipped, j)
  <2>1. L \in Nat /\ j \in 1..L /\ j + 1 \in 2..L /\ j + 1 - 1 = j
    BY SkippedIs
  <2>2. PICK e \in map : e \notin Waiting(stack, j) /\ e.addr = stack[j + 1].target
    BY <2>1 DEF StackOK, Reach
  <2>3. stack[j + 1].target = Back(c, j)
    BY <2>1 DEF Agrees
  <2>4. Waiting(Skipped, j) = Waiting(stack, j)
    BY SkippedIs
  <2> QED BY <1>1, <2>1, <2>2, <2>3, <2>4 DEF Waits, MapOK
<1>4. \A j \in 1..L : j = L \/ j \in 1..(L - 1)
  BY SkippedIs
<1> QED BY <1>2, <1>3, <1>4

\* Taking an entry, only the chains through it stop waiting.
LEMMA SkipLeaves ==
  ASSUME MapOK, StackOK(stack), stack # <<>>, Top.rest # <<>>, NEW c, NEW j \in 1..Len(stack)
  PROVE  /\ Agrees(c, Skipped, j) <=> Agrees(c, stack, j)
         /\ Waits(c, Skipped, j) => Waits(c, stack, j)
         /\ Waits(c, stack, j) => Waits(c, Skipped, j) \/ (j = Len(stack) /\ Taken.addr = Back(c, j))
<1> DEFINE L == Len(stack)
<1>1. L \in Nat /\ j \in Nat /\ (j = L \/ j \in 1..(L - 1)) /\ \A i \in 2..j : i \in 1..L
  BY SkippedIs
<1>2. Agrees(c, Skipped, j) <=> Agrees(c, stack, j)
  BY <1>1, SkippedIs DEF Agrees
<1>3. j # L => Waiting(Skipped, j) = Waiting(stack, j)
  BY <1>1, SkippedIs
<1>4. Waiting(Skipped, L) = Waiting(stack, L) \ {Taken}
  BY SkippedIs
<1> QED BY <1>2, <1>3, <1>4 DEF Waits

LEMMA SkippedOK ==
  ASSUME MapOK, StackOK(stack), stack # <<>>, Top.rest # <<>>
  PROVE  StackOK(Skipped)
<1> DEFINE L == Len(stack)
<1>1. Skipped \in Seq(Call) /\ Len(Skipped) = L /\ L \in Nat /\ L \in 1..MaxDepth
  BY SkippedIs
<1>2. Skipped[1].target = target
  BY <1>1, SkippedIs DEF StackOK
<1>3. \A j \in 1..L : j = L \/ j \in 1..(L - 1)
  BY <1>1
<1>4. \A j \in 1..L : Waiting(Skipped, j) \subseteq Waiting(stack, j)
  BY <1>3, SkippedIs
<1>5. ASSUME NEW j \in 1..L
      PROVE  /\ Waiting(Skipped, j) \subseteq Reach(Skipped[j].target)
             /\ \A k, m \in 1..Len(Skipped[j].rest) : Skipped[j].rest[k] = Skipped[j].rest[m] => k = m
  <2>1. Waiting(Skipped, j) \subseteq Reach(Skipped[j].target)
    BY <1>4, SkippedIs DEF StackOK
  <2>2. CASE j = L
    BY <2>1, <2>2, SkippedIs
  <2>3. CASE j \in 1..(L - 1)
    BY <2>1, <2>3, SkippedIs DEF StackOK
  <2> QED BY <1>3, <2>2, <2>3
<1>6. ASSUME NEW j \in 2..L
      PROVE  /\ Skipped[j].target \notin Static
             /\ \E e \in Reach(Skipped[j - 1].target) \ Waiting(Skipped, j - 1) : e.addr = Skipped[j].target
  <2>1. j \in 1..L /\ j - 1 \in 1..L
    BY <1>1
  <2>2. Skipped[j].target = stack[j].target /\ Skipped[j - 1].target = stack[j - 1].target
    BY <2>1, SkippedIs
  <2> QED BY <1>4, <2>1, <2>2 DEF StackOK
<1> QED BY <1>1, <1>2, <1>5, <1>6 DEF StackOK

\* The chain of an entry inside a module is the targets of the calls, and the entry.
LEMMA ChainOfIs ==
  ASSUME StackOK(stack), stack # <<>>, NEW a \in Nat, NEW e, e.addr = a
  PROVE  /\ ChainOf(e) \in [1..Len(stack) -> Nat] /\ Len(ChainOf(e)) = Len(stack)
         /\ Back(ChainOf(e), Len(stack)) = a
         /\ Agrees(ChainOf(e), stack, Len(stack))
<1> DEFINE L == Len(stack)
           ts == [j \in 1..(L - 1) |-> stack[j + 1].target]
<1>1. L \in Nat \ {0} /\ \A j \in 1..L : stack[j].target \in Nat
  <2>1. stack \in Seq(Call)
    BY DEF StackOK
  <2>2. L \in Nat \ {0} /\ \A j \in 1..L : stack[j] \in Call
    BY <2>1
  <2> QED BY <2>2 DEF Call
<1>2. ts \in Seq(Nat) /\ Len(ts) = L - 1
  BY <1>1
<1>3. \A j \in 1..(L - 1) : ts[j] = stack[j + 1].target
  OBVIOUS
<1> HIDE DEF ts
<1>4. Reverse(ts) = [i \in 1..(L - 1) |-> ts[(L - 1 - i) + 1]]
  BY <1>2 DEF Reverse
<1>5. Reverse(ts) \in Seq(Nat) /\ Len(Reverse(ts)) = L - 1
      /\ \A i \in 1..(L - 1) : Reverse(ts)[i] = ts[(L - 1 - i) + 1]
  <2>1. L - 1 \in Nat /\ \A i \in 1..(L - 1) : (L - 1 - i) + 1 \in 1..(L - 1)
    BY <1>1
  <2>2. \A i \in 1..(L - 1) : ts[(L - 1 - i) + 1] \in Nat
    BY <1>2, <2>1
  <2> QED BY <1>4, <2>1, <2>2
<1>6. ChainOf(e) = <<a>> \o Reverse(ts)
  BY DEF ChainOf, ts
<1> DEFINE c == ChainOf(e)
<1>7. c \in Seq(Nat) /\ Len(c) = L /\ c[1] = a
      /\ \A i \in 2..L : c[i] = Reverse(ts)[i - 1]
  BY <1>1, <1>5, <1>6
<1>8. c \in [1..L -> Nat]
  BY <1>7
<1>9. Back(c, L) = a
  BY <1>1, <1>7 DEF Back
<1>10. ASSUME NEW i \in 2..L PROVE stack[i].target = Back(c, i - 1)
  <2>1. L - i + 2 \in 2..L /\ L - i + 2 - 1 \in 1..(L - 1) /\ i - 1 \in 1..(L - 1)
        /\ (L - 1 - (L - i + 2 - 1)) + 1 = i - 1 /\ i - 1 + 1 = i /\ L - (i - 1) + 1 = L - i + 2
    BY <1>1
  <2>2. Back(c, i - 1) = c[L - i + 2]
    BY <1>7, <2>1 DEF Back
  <2>3. c[L - i + 2] = Reverse(ts)[L - i + 2 - 1]
    BY <1>7, <2>1
  <2>4. Reverse(ts)[L - i + 2 - 1] = ts[i - 1]
    BY <1>5, <2>1
  <2>5. ts[i - 1] = stack[i].target
    BY <1>3, <2>1
  <2> QED BY <2>2, <2>3, <2>4, <2>5
<1> QED BY <1>7, <1>8, <1>9, <1>10 DEF Agrees

\* It is one of the chains, and the only one through the entry.
LEMMA ChainOfLeads ==
  ASSUME MapOK, target \in Nat, StackOK(stack), stack # <<>>, Top.rest # <<>>,
         Taken.addr \in Static
  PROVE  /\ ChainOf(Taken) \in Chains
         /\ Waits(ChainOf(Taken), stack, Len(stack))
         /\ \A d \in Chains :
              Waits(d, stack, Len(stack)) /\ Taken.addr = Back(d, Len(stack)) => d = ChainOf(Taken)
<1> DEFINE L == Len(stack)
           c == ChainOf(Taken)
<1>1. L \in 1..MaxDepth /\ L \in Nat \ {0}
  BY SkippedIs, PointerConstants
<1>2. Taken \in Waiting(stack, L) /\ Taken \in Reach(stack[L].target) /\ Taken \in map
  BY <1>1, SkippedIs DEF StackOK, Reach
<1>3. Taken.addr \in Nat
  BY <1>2 DEF MapOK, Entries
<1>4. c \in [1..L -> Nat] /\ Len(c) = L /\ Back(c, L) = Taken.addr /\ Agrees(c, stack, L)
  BY <1>3, ChainOfIs
<1> HIDE DEF c
<1>5. \A k \in 1..L : Aim(c, k) = stack[k].target
  <2>1. \A k \in 1..L : k = 1 \/ k \in 2..L
    BY <1>1
  <2>2. stack[1].target = target
    BY DEF StackOK
  <2> QED BY <1>4, <2>1, <2>2 DEF Aim, Agrees
<1>6. ASSUME NEW k \in 1..L PROVE StepsBack(c, k)
  <2>1. CASE k = L
    BY <1>2, <1>4, <1>5, <2>1 DEF StepsBack
  <2>2. CASE k # L
    <3>1. k + 1 \in 2..L /\ k + 1 - 1 = k
      BY <1>1, <2>2
    <3>2. stack[k + 1].target = Back(c, k)
      BY <1>4, <3>1 DEF Agrees
    <3>3. Back(c, k) \notin Static /\ \E e \in Reach(stack[k].target) : e.addr = Back(c, k)
      BY <3>1, <3>2 DEF StackOK
    <3> QED BY <1>4, <1>5, <2>2, <3>3 DEF StepsBack
  <2> QED BY <2>1, <2>2
<1>7. c \in Chains
  BY <1>1, <1>4, <1>6, StepsBackChain
<1>8. Waits(c, stack, L)
  BY <1>1, <1>2, <1>4 DEF Waits
<1>9. ASSUME NEW d \in Chains, Waits(d, stack, L), Taken.addr = Back(d, L) PROVE d = c
  <2>1. Len(d) \in 1..MaxDepth /\ d \in [1..Len(d) -> Nat] /\ L \in 1..Len(d) /\ StepsBack(d, L)
    BY <1>1, <1>9, ChainsStepBack DEF Waits
  <2>2. L = Len(d)
    BY <1>9, <2>1 DEF StepsBack
  <2>3. ASSUME NEW k \in 1..L PROVE Back(c, k) = Back(d, k)
    <3>1. CASE k = L
      BY <1>4, <1>9, <3>1
    <3>2. CASE k # L
      <4>1. k + 1 \in 2..L /\ k + 1 - 1 = k
        BY <1>1, <3>2
      <4> QED BY <1>4, <1>9, <4>1 DEF Waits, Agrees
    <3> QED BY <3>1, <3>2
  <2>4. d \in [1..L -> Nat] /\ c \in [1..L -> Nat] /\ L \in Nat
    BY <1>1, <1>4, <2>1, <2>2
  <2> HIDE DEF L
  <2> QED BY <2>3, <2>4, SameSteps
<1> QED BY <1>7, <1>8, <1>9 DEF c

\* A call on an entry outside the modules waits for what the chains through it go on with.
LEMMA DeeperOK ==
  ASSUME MapOK, target \in Nat, StackOK(stack), stack # <<>>, Top.rest # <<>>,
         Taken.addr \notin Static, Len(stack) < MaxDepth
  PROVE  LET deeper == Append(Skipped, CallFor(Taken.addr))
         IN  /\ StackOK(deeper) /\ Len(deeper) = Len(stack) + 1
             /\ \A c, j : j \in 1..Len(stack) => (Waits(c, deeper, j) <=> Waits(c, Skipped, j))
             /\ \A c \in Chains : Waits(c, deeper, Len(stack) + 1)
                  <=> Waits(c, stack, Len(stack)) /\ Taken.addr = Back(c, Len(stack))
<1> DEFINE L == Len(stack)
           deeper == Append(Skipped, CallFor(Taken.addr))
<1>1. L \in 1..MaxDepth /\ L \in Nat \ {0} /\ Skipped \in Seq(Call) /\ Len(Skipped) = L
  BY SkippedIs, PointerConstants
<1>2. Taken \in Waiting(stack, L) /\ Taken \in Reach(stack[L].target) /\ Taken \in map
  BY <1>1, SkippedIs DEF StackOK, Reach
<1>3. Taken.addr \in Nat
  BY <1>2 DEF MapOK, Entries
<1>4. CallFor(Taken.addr) \in Call /\ CallFor(Taken.addr).target = Taken.addr
  BY <1>3, FrameIs
<1>5. deeper \in Seq(Call) /\ Len(deeper) = L + 1 /\ deeper[L + 1] = CallFor(Taken.addr)
      /\ \A j \in 1..L : deeper[j] = Skipped[j]
  BY <1>1, <1>4
<1> HIDE DEF deeper
<1>6. Waiting(deeper, L + 1) = Reach(Taken.addr)
  BY <1>3, <1>5, FrameIs
<1>7. \A j \in 1..L : Waiting(deeper, j) = Waiting(Skipped, j)
  BY <1>5 DEF Waiting
<1>8. StackOK(Skipped)
  BY SkippedOK
<1>9. StackOK(deeper)
  <2>1. deeper[1].target = target /\ Len(deeper) <= MaxDepth
    <3>1. Skipped[1].target = target
      BY <1>1, <1>8 DEF StackOK
    <3> QED BY <1>1, <1>5, <3>1, PointerConstants
  <2>2. ASSUME NEW j \in 1..(L + 1)
        PROVE  /\ Waiting(deeper, j) \subseteq Reach(deeper[j].target)
               /\ \A k, m \in 1..Len(deeper[j].rest) : deeper[j].rest[k] = deeper[j].rest[m] => k = m
    <3>1. CASE j = L + 1
      BY <1>3, <1>4, <1>5, <1>6, <3>1, FrameIs
    <3>2. CASE j # L + 1
      <4>1. j \in 1..L
        BY <1>1, <3>2
      <4> QED BY <1>1, <1>5, <1>7, <1>8, <4>1 DEF StackOK
    <3> QED BY <3>1, <3>2
  <2>3. ASSUME NEW j \in 2..(L + 1)
        PROVE  /\ deeper[j].target \notin Static
               /\ \E e \in Reach(deeper[j - 1].target) \ Waiting(deeper, j - 1) : e.addr = deeper[j].target
    <3>1. CASE j = L + 1
      <4>1. j - 1 = L /\ L \in 1..L
        BY <1>1, <3>1
      <4>2. deeper[L].target = stack[L].target
        BY <1>5, <4>1, SkippedIs
      <4>3. Taken \in Reach(deeper[j - 1].target) /\ Taken \notin Waiting(deeper, j - 1)
        BY <1>2, <1>7, <4>1, <4>2, SkippedIs
      <4> QED BY <1>4, <1>5, <3>1, <4>3
    <3>2. CASE j # L + 1
      <4>1. j \in 2..L /\ j \in 1..L /\ j - 1 \in 1..L
        BY <1>1, <3>2
      <4> QED BY <1>1, <1>5, <1>7, <1>8, <4>1 DEF StackOK
    <3> QED BY <3>1, <3>2
  <2> QED BY <1>5, <2>1, <2>2, <2>3 DEF StackOK
<1>10. ASSUME NEW c, NEW j \in 1..L PROVE Waits(c, deeper, j) <=> Waits(c, Skipped, j)
  <2>1. \A i \in 2..j : i \in 1..L
    BY <1>1
  <2>2. Agrees(c, deeper, j) <=> Agrees(c, Skipped, j)
    BY <1>5, <2>1 DEF Agrees
  <2> QED BY <1>7, <2>2 DEF Waits
<1>11. ASSUME NEW c \in Chains
       PROVE  Waits(c, deeper, L + 1) <=> Waits(c, stack, L) /\ Taken.addr = Back(c, L)
  <2>1. /\ Len(c) \in Nat /\ \A k \in 1..Len(c) : StepsBack(c, k)
    BY ChainsStepBack, PointerConstants
  <2>2. Agrees(c, deeper, L + 1) <=> Agrees(c, stack, L) /\ Taken.addr = Back(c, L)
    <3>1. /\ L + 1 \in 2..(L + 1) /\ L + 1 - 1 = L
          /\ \A i \in 2..(L + 1) : i = L + 1 \/ i \in 2..L
          /\ \A i \in 2..L : i \in 2..(L + 1) /\ i \in 1..L
      BY <1>1
    <3>2. \A i \in 2..L : deeper[i].target = stack[i].target
      BY <1>5, <3>1, SkippedIs
    <3>3. deeper[L + 1].target = Taken.addr
      BY <1>4, <1>5
    <3>4. Agrees(c, deeper, L + 1) => Agrees(c, stack, L) /\ Taken.addr = Back(c, L)
      BY <3>1, <3>2, <3>3 DEF Agrees
    <3>5. ASSUME Agrees(c, stack, L), Taken.addr = Back(c, L), NEW i \in 2..(L + 1)
          PROVE  deeper[i].target = Back(c, i - 1)
      BY <3>1, <3>2, <3>3, <3>5 DEF Agrees
    <3> QED BY <3>4, <3>5 DEF Agrees
  <2>3. ASSUME Agrees(c, stack, L), Taken.addr = Back(c, L), L <= Len(c)
        PROVE  L + 1 <= Len(c) /\ \E e \in Waiting(deeper, L + 1) : e.addr = Back(c, L + 1)
    <3>1. StepsBack(c, L) /\ L # Len(c)
      BY <1>1, <2>1, <2>3 DEF StepsBack
    <3>2. L + 1 \in 1..Len(c) /\ L + 1 # 1 /\ L + 1 - 1 = L
      BY <1>1, <2>1, <2>3, <3>1
    <3>3. Aim(c, L + 1) = Taken.addr
      BY <2>3, <3>2 DEF Aim
    <3>4. StepsBack(c, L + 1)
      BY <2>1, <3>2
    <3> QED BY <1>6, <3>2, <3>3, <3>4 DEF StepsBack
  <2>4. L + 1 <= Len(c) => L <= Len(c)
    BY <1>1, <2>1
  <2>5. Taken.addr = Back(c, L) => \E e \in Waiting(stack, L) : e.addr = Back(c, L)
    BY <1>2
  <2> QED BY <2>2, <2>3, <2>4, <2>5 DEF Waits
<1> QED BY <1>5, <1>9, <1>10, <1>11 DEF deeper

\* A chain that goes on through an entry outside the modules is longer than the calls.
LEMMA GoesOn ==
  ASSUME MapOK, target \in Nat, StackOK(stack), stack # <<>>, Top.rest # <<>>,
         Taken.addr \notin Static, NEW c \in Chains,
         Waits(c, stack, Len(stack)), Taken.addr = Back(c, Len(stack))
  PROVE  Len(stack) < MaxDepth
<1>1. Len(stack) \in Nat \ {0} /\ Len(c) \in 1..MaxDepth /\ Len(stack) <= Len(c) /\ MaxDepth \in Nat
  BY SkippedIs, ChainsStepBack, PointerConstants DEF Waits
<1>2. StepsBack(c, Len(stack))
  BY <1>1, ChainsStepBack
<1> QED BY <1>1, <1>2 DEF StepsBack

\* A call that has come to its end has no chain waiting.
LEMMA ReturnOK ==
  ASSUME StackOK(stack), stack # <<>>, Top.rest = <<>>
  PROVE  /\ StackOK(Front(stack))
         /\ \A c : Pending(c, Front(stack)) <=> Pending(c, stack)
<1> DEFINE L == Len(stack)
<1>1. stack \in Seq(Call)
  BY DEF StackOK
<1>2. Front(stack) \in Seq(Call) /\ Len(Front(stack)) = L - 1 /\ L \in Nat \ {0}
      /\ \A j \in 1..(L - 1) : Front(stack)[j] = stack[j]
  BY <1>1, FrontIs
<1>3. Waiting(stack, L) = {}
  <2>1. stack[L].rest = <<>>
    BY <1>1, FrontIs DEF Top
  <2>2. Len(stack[L].rest) = 0
    BY <2>1
  <2> QED BY <2>2 DEF Waiting
<1>4. \A j \in 1..(L - 1) : j \in 1..L /\ Waiting(Front(stack), j) = Waiting(stack, j)
  BY <1>2 DEF Waiting
<1>5. StackOK(Front(stack))
  <2>1. \A j \in 2..(L - 1) : j \in 2..L /\ j \in 1..(L - 1) /\ j - 1 \in 1..(L - 1)
    BY <1>2
  <2>2. Len(Front(stack)) <= MaxDepth
    BY <1>2, PointerConstants DEF StackOK
  <2>3. Front(stack) # <<>> => Front(stack)[1].target = target
    <3>1. Front(stack) # <<>> => 1 \in 1..(L - 1)
      BY <1>2
    <3> QED BY <1>2, <3>1 DEF StackOK
  <2>4. ASSUME NEW j \in 1..(L - 1)
        PROVE  /\ Waiting(Front(stack), j) \subseteq Reach(Front(stack)[j].target)
               /\ \A k, m \in 1..Len(Front(stack)[j].rest) :
                    Front(stack)[j].rest[k] = Front(stack)[j].rest[m] => k = m
    BY <1>2, <1>4 DEF StackOK
  <2>5. ASSUME NEW j \in 2..(L - 1)
        PROVE  /\ Front(stack)[j].target \notin Static
               /\ \E e \in Reach(Front(stack)[j - 1].target) \ Waiting(Front(stack), j - 1) :
                    e.addr = Front(stack)[j].target
    BY <1>2, <1>4, <2>1 DEF StackOK
  <2> QED BY <1>2, <2>2, <2>3, <2>4, <2>5 DEF StackOK
<1>6. ASSUME NEW c PROVE Pending(c, Front(stack)) <=> Pending(c, stack)
  <2>1. ~ Waits(c, stack, L)
    BY <1>3 DEF Waits
  <2>2. ASSUME NEW j \in 1..(L - 1) PROVE Waits(c, Front(stack), j) <=> Waits(c, stack, j)
    <3>1. \A i \in 2..j : i \in 1..(L - 1)
      BY <1>2
    <3>2. Agrees(c, Front(stack), j) <=> Agrees(c, stack, j)
      BY <1>2, <3>1 DEF Agrees
    <3> QED BY <1>4, <3>2 DEF Waits
  <2>3. \A j \in 1..L : j = L \/ j \in 1..(L - 1)
    BY <1>2
  <2> QED BY <1>2, <1>4, <2>1, <2>2, <2>3 DEF Pending
<1> QED BY <1>5, <1>6

-----------------------------------------------------------------------------
(* The search: what it has found and what is waiting in its calls.         *)

\* The results are chains, no two the same, and none of them is waiting.
SearchOK(calls, results) ==
  /\ StackOK(calls)
  /\ results \in Seq(Chains)
  /\ \A j, k \in 1..Len(results) : results[j] = results[k] => j = k
  /\ \A j \in 1..Len(results) : ~ Pending(results[j], calls)

\* No chain is lost: it waits or is a result.
NoneLost(calls, results) ==
  \A c \in Chains : Pending(c, calls) \/ \E j \in 1..Len(results) : results[j] = c

LEMMA Abandoned ==
  ASSUME NEW calls, NEW results, SearchOK(calls, results)
  PROVE  SearchOK(<<>>, results)
<1>1. StackOK(<<>>) /\ \A c : ~ Pending(c, <<>>)
  BY PointerConstants DEF StackOK, Pending
<1> QED BY <1>1 DEF SearchOK

LEMMA StartFinds ==
  ASSUME MapOK, target \in Nat
  PROVE  SearchOK(<<CallFor(target)>>, <<>>) /\ NoneLost(<<CallFor(target)>>, <<>>)
<1> DEFINE calls == <<CallFor(target)>>
<1>1. CallFor(target) \in Call /\ CallFor(target).target = target
  BY FrameIs
<1>2. calls \in Seq(Call) /\ Len(calls) = 1 /\ calls[1] = CallFor(target)
  BY <1>1
<1> HIDE DEF calls
<1>3. Waiting(calls, 1) = Reach(target)
  BY <1>2, FrameIs
<1>4. StackOK(calls)
  <2>1. \A j \in 1..1 : j = 1
    OBVIOUS
  <2>2. 2..1 = {}
    OBVIOUS
  <2>3. \A k, m \in 1..Len(calls[1].rest) : calls[1].rest[k] = calls[1].rest[m] => k = m
    BY <1>2, FrameIs
  <2> QED BY <1>1, <1>2, <1>3, <2>1, <2>2, <2>3, PointerConstants DEF StackOK
<1>5. ASSUME NEW c \in Chains PROVE Pending(c, calls)
  <2>1. 1 \in 1..Len(c) /\ StepsBack(c, 1) /\ 1 <= Len(c)
    BY ChainsStepBack, PointerConstants
  <2>2. Agrees(c, calls, 1)
    BY DEF Agrees
  <2>3. \E e \in Waiting(calls, 1) : e.addr = Back(c, 1)
    BY <1>3, <2>1 DEF StepsBack, Aim
  <2> QED BY <1>2, <2>1, <2>2, <2>3 DEF Pending, Waits
<1> QED BY <1>4, <1>5 DEF SearchOK, NoneLost, calls

\* What is waiting when an entry has been taken.
LEMMA StillPending ==
  ASSUME MapOK, StackOK(stack), stack # <<>>, Top.rest # <<>>, NEW c
  PROVE  /\ Pending(c, Skipped) => Pending(c, stack)
         /\ Pending(c, stack) =>
              \/ Pending(c, Skipped)
              \/ Waits(c, stack, Len(stack)) /\ Taken.addr = Back(c, Len(stack))
<1>1. Len(Skipped) = Len(stack)
  BY SkippedIs
<1>2. \A j \in 1..Len(stack) :
        /\ Waits(c, Skipped, j) => Waits(c, stack, j)
        /\ Waits(c, stack, j) => Waits(c, Skipped, j) \/ (j = Len(stack) /\ Taken.addr = Back(c, j))
  BY SkipLeaves
<1> QED BY <1>1, <1>2 DEF Pending

LEMMA VisitStaticFinds ==
  ASSUME MapOK, target \in Nat, stack # <<>>, Top.rest # <<>>, Taken.addr \in Static,
         SearchOK(stack, found), NoneLost(stack, found)
  PROVE  /\ SearchOK(Skipped, Append(found, ChainOf(Taken)))
         /\ NoneLost(Skipped, Append(found, ChainOf(Taken)))
<1> DEFINE L == Len(stack)
           c == ChainOf(Taken)
           results == Append(found, c)
<1>1. StackOK(stack) /\ StackOK(Skipped) /\ Len(Skipped) = L /\ L \in 1..L
  BY SkippedOK, SkippedIs DEF SearchOK
<1>2. c \in Chains /\ Waits(c, stack, L)
      /\ \A d \in Chains : Waits(d, stack, L) /\ Taken.addr = Back(d, L) => d = c
  BY <1>1, ChainOfLeads
<1>3. Taken \in map
  BY <1>1, SkippedIs DEF StackOK, Reach
<1>4. Taken.addr = Back(c, L)
  BY <1>1, <1>3, ChainOfIs DEF MapOK, Entries
<1>5. ~ Pending(c, Skipped)
  BY <1>1, <1>2, <1>4, TakenOnce DEF Pending, Waits
<1>6. Pending(c, stack)
  BY <1>1, <1>2 DEF Pending
<1> HIDE DEF c
<1>7. found \in Seq(Chains) /\ Len(found) \in Nat
  BY DEF SearchOK
<1>8. results \in Seq(Chains) /\ Len(results) = Len(found) + 1 /\ results[Len(found) + 1] = c
      /\ \A j \in 1..Len(found) : results[j] = found[j]
  BY <1>2, <1>7
<1> HIDE DEF results
<1>9. \A j \in 1..Len(results) : j = Len(found) + 1 \/ j \in 1..Len(found)
  BY <1>7, <1>8
<1>10. \A j \in 1..Len(found) : found[j] # c /\ ~ Pending(found[j], Skipped)
  BY <1>1, <1>6, StillPending DEF SearchOK
<1>11. \A j, k \in 1..Len(results) : results[j] = results[k] => j = k
  BY <1>8, <1>9, <1>10 DEF SearchOK
<1>12. \A j \in 1..Len(results) : ~ Pending(results[j], Skipped)
  BY <1>5, <1>8, <1>9, <1>10
<1>13. SearchOK(Skipped, results)
  BY <1>1, <1>8, <1>11, <1>12 DEF SearchOK
<1>14. ASSUME NEW d \in Chains
       PROVE  Pending(d, Skipped) \/ \E j \in 1..Len(results) : results[j] = d
  <2>1. Pending(d, stack) \/ \E j \in 1..Len(found) : found[j] = d
    BY DEF NoneLost
  <2>2. \A j \in 1..Len(found) : j \in 1..Len(results)
    BY <1>7, <1>8
  <2>3. Len(found) + 1 \in 1..Len(results)
    BY <1>7, <1>8
  <2>4. Pending(d, stack) => Pending(d, Skipped) \/ d = c
    BY <1>1, <1>2, StillPending
  <2> QED BY <1>8, <2>1, <2>2, <2>3, <2>4
<1> QED BY <1>13, <1>14 DEF NoneLost, results, c

LEMMA VisitHeapFinds ==
  ASSUME MapOK, target \in Nat, stack # <<>>, Top.rest # <<>>, Taken.addr \notin Static,
         SearchOK(stack, found), NoneLost(stack, found)
  PROVE  LET calls == IF Len(stack) < MaxDepth THEN Append(Skipped, CallFor(Taken.addr)) ELSE Skipped
         IN  SearchOK(calls, found) /\ NoneLost(calls, found)
<1> DEFINE L == Len(stack)
           deeper == Append(Skipped, CallFor(Taken.addr))
<1>1. StackOK(stack) /\ StackOK(Skipped) /\ Len(Skipped) = L /\ L \in Nat /\ L \in 1..L
  BY SkippedOK, SkippedIs DEF SearchOK
<1>2. found \in Seq(Chains) /\ \A j \in 1..Len(found) : found[j] \in Chains
  BY DEF SearchOK
<1>3. CASE L < MaxDepth
  <2>1. /\ StackOK(deeper) /\ Len(deeper) = L + 1
        /\ \A c, j : j \in 1..L => (Waits(c, deeper, j) <=> Waits(c, Skipped, j))
        /\ \A c \in Chains : Waits(c, deeper, L + 1) <=> Waits(c, stack, L) /\ Taken.addr = Back(c, L)
    BY <1>1, <1>3, DeeperOK
  <2> HIDE DEF deeper
  <2>2. \A j \in 1..(L + 1) : j = L + 1 \/ j \in 1..L
    BY <1>1
  <2>3. L + 1 \in 1..(L + 1) /\ \A j \in 1..L : j \in 1..(L + 1)
    BY <1>1
  <2>4. ASSUME NEW c \in Chains PROVE Pending(c, deeper) <=> Pending(c, stack)
    <3>1. Pending(c, deeper) <=> (Pending(c, Skipped) \/ Waits(c, deeper, L + 1))
      BY <1>1, <2>1, <2>2, <2>3 DEF Pending
    <3>2. Waits(c, stack, L) => Pending(c, stack)
      BY <1>1 DEF Pending
    <3> QED BY <1>1, <2>1, <3>1, <3>2, StillPending
  <2>5. SearchOK(deeper, found) /\ NoneLost(deeper, found)
    BY <1>2, <2>1, <2>4 DEF SearchOK, NoneLost
  <2> QED BY <1>3, <2>5 DEF deeper
<1>4. CASE ~ (L < MaxDepth)
  <2>1. ASSUME NEW c \in Chains PROVE Pending(c, Skipped) <=> Pending(c, stack)
    BY <1>1, <1>4, StillPending, GoesOn
  <2>2. SearchOK(Skipped, found) /\ NoneLost(Skipped, found)
    BY <1>1, <1>2, <2>1 DEF SearchOK, NoneLost
  <2> QED BY <1>4, <2>2
<1> QED BY <1>3, <1>4

LEMMA ReturnFinds ==
  ASSUME stack # <<>>, Top.rest = <<>>, SearchOK(stack, found), NoneLost(stack, found)
  PROVE  SearchOK(Front(stack), found) /\ NoneLost(Front(stack), found)
<1>1. StackOK(Front(stack)) /\ \A c : Pending(c, Front(stack)) <=> Pending(c, stack)
  BY ReturnOK DEF SearchOK
<1> QED BY <1>1 DEF SearchOK, NoneLost

-----------------------------------------------------------------------------
(* The inductive invariant of the pointer scan.                            *)

\* No address is read twice: no region is, and regions do not overlap.
MapInv ==
  /\ MapOK
  /\ memory \in [Aligned -> Values] /\ Aligned \subseteq Committed
  /\ left \in Seq(SUBSET Committed)
  /\ \A q, r \in DOMAIN left : q # r => left[q] \cap left[r] = {}
  /\ \A e \in map : /\ e.addr \in Aligned /\ e.val \in Values
                    /\ \A r \in DOMAIN left : e.addr \notin left[r]

SearchInv ==
  /\ target \in Targets /\ cancel \in BOOLEAN /\ whole \in BOOLEAN
  /\ \/ phase = "map" /\ stack = <<>> /\ found = <<>>
     \/ /\ phase = "search" /\ stack # <<>> /\ Len(found) < MaxResults
        /\ SearchOK(stack, found) /\ NoneLost(stack, found)
     \/ /\ phase = "done" /\ stack = <<>> /\ Len(found) <= MaxResults
        /\ SearchOK(<<>>, found) /\ (whole => NoneLost(<<>>, found))

PsInv == MapInv /\ SearchInv

LEMMA CommittedIs == Committed \subseteq 0..MaxAddress /\ Region \in Seq(SUBSET Committed)
<1>1. \A r \in DOMAIN Region : Region[r] \subseteq 0..MaxAddress /\ Region[r] \in SUBSET Committed
  BY PointerConstants DEF Committed
<1> QED BY <1>1, PointerConstants DEF Committed

LEMMA TargetIs == ASSUME target \in Targets PROVE target \in Nat
BY PointerConstants

\* A map with one entry at most for an address is finite.
LEMMA FiniteMap ==
  ASSUME NEW m, \A e \in m : e.addr \in 0..MaxAddress, \A e, f \in m : e.addr = f.addr => e = f
  PROVE  IsFiniteSet(m)
<1> DEFINE at == [e \in m |-> e.addr]
<1>1. IsFiniteSet(0..MaxAddress)
  BY FS_Interval, PointerConstants
<1>2. at \in Injection(m, 0..MaxAddress)
  BY DEF Injection, IsInjective
<1> HIDE DEF at
<1> QED BY <1>1, <1>2, FS_Injection

LEMMA PsInitInv == PsInit => PsInv
<1> SUFFICES ASSUME PsInit PROVE PsInv
  OBVIOUS
<1>1. MapOK
  BY FS_EmptySet DEF PsInit, MapOK
<1>2. memory \in [Aligned -> Values] /\ Aligned \subseteq Committed
  BY DEF PsInit, Aligned
<1>3. left \in Seq(SUBSET Committed) /\ \A q, r \in DOMAIN left : q # r => left[q] \cap left[r] = {}
  BY CommittedIs, PointerConstants DEF PsInit
<1> QED BY <1>1, <1>2, <1>3 DEF PsInit, PsInv, MapInv, SearchInv

LEMMA Steady ==
  ASSUME UNCHANGED <<map, target>>, NEW calls, NEW results, stack' = calls, found' = results
  PROVE  /\ Chains' = Chains
         /\ SearchOK(calls, results) => SearchOK(stack, found)'
         /\ NoneLost(calls, results) => NoneLost(stack, found)'
<1>1. Chains' = Chains
  BY DEF Chains, ChainsOfLength, Leads, Entry
<1>2. \A c : Pending(c, calls) <=> Pending(c, stack)'
  BY DEF Pending, Waits, Agrees, Back, Waiting
<1>3. StackOK(calls) => StackOK(stack)'
  BY DEF StackOK, Waiting, Reach, LowestBase, Call
<1>4. SearchOK(calls, results) => SearchOK(stack, found)'
  BY <1>1, <1>2, <1>3 DEF SearchOK
<1>5. NoneLost(calls, results) => NoneLost(stack, found)'
  BY <1>1, <1>2 DEF NoneLost
<1> QED BY <1>1, <1>4, <1>5

\* Proceed keeps what the calls and the results it goes on with have.
LEMMA ProceedKeeps ==
  ASSUME SearchInv, UNCHANGED <<map, target, cancel>>, NEW calls, NEW results,
         Proceed(calls, results), SearchOK(calls, results), NoneLost(calls, results),
         Len(results) <= MaxResults
  PROVE  SearchInv'
<1>1. /\ found' = results /\ stack' = (IF CutShort(results) THEN <<>> ELSE calls)
      /\ phase' = (IF stack' = <<>> THEN "done" ELSE "search") /\ whole' = ~ CutShort(results)
  BY DEF Proceed
<1>2. target' \in Targets /\ cancel' \in BOOLEAN /\ whole' \in BOOLEAN
  BY <1>1 DEF SearchInv
<1>3. CASE CutShort(results)
  <2>1. stack' = <<>> /\ phase' = "done" /\ ~ whole'
    BY <1>1, <1>3
  <2>2. SearchOK(stack, found)'
    BY <1>1, <2>1, Abandoned, Steady
  <2> QED BY <1>1, <1>2, <2>1, <2>2 DEF SearchInv
<1>4. CASE ~ CutShort(results)
  <2>1. stack' = calls
    BY <1>1, <1>4
  <2>2. SearchOK(stack, found)' /\ NoneLost(stack, found)'
    BY <1>1, <2>1, Steady
  <2>3. Len(found') < MaxResults
    BY <1>1, <1>4, PointerConstants DEF CutShort, SearchOK
  <2> QED BY <1>1, <1>2, <2>1, <2>2, <2>3 DEF SearchInv
<1> QED BY <1>3, <1>4

LEMMA MapRegionKeeps == ASSUME PsInv, MapRegion PROVE PsInv'
<1> DEFINE h == Head(left)
           new == EntriesOf(Aligned \cap h)
<1>1. left \in Seq(SUBSET Committed) /\ left # <<>> /\ left' = Tail(left) /\ memory' = memory
  BY DEF PsInv, MapInv, MapRegion
<1>2. /\ h = left[1] /\ h \in SUBSET Committed /\ left' \in Seq(SUBSET Committed)
      /\ 1 \in DOMAIN left
      /\ \A r \in DOMAIN left' : r + 1 \in DOMAIN left /\ r + 1 # 1 /\ left'[r] = left[r + 1]
  BY <1>1
<1>3. \A q, r \in DOMAIN left' : q # r => left'[q] \cap left'[r] = {}
  <2>1. \A q, r \in DOMAIN left' : q # r => q + 1 # r + 1
    BY <1>1
  <2> QED BY <1>2, <2>1 DEF PsInv, MapInv
<1>4. \A e \in new : e = [addr |-> e.addr, val |-> e.val] /\ e.addr \in Aligned \cap h
                     /\ e.val = memory[e.addr]
  BY DEF EntriesOf
<1>5. map' \in SUBSET (map \cup new)
  BY DEF MapRegion
<1> HIDE DEF new, h
<1>6. \A e \in map' : /\ e.addr \in Aligned /\ e.val \in Values
                      /\ \A r \in DOMAIN left' : e.addr \notin left'[r]
  <2>1. \A r \in DOMAIN left' : h \cap left'[r] = {}
    BY <1>2 DEF PsInv, MapInv
  <2>2. \A e \in new : /\ e.addr \in Aligned /\ e.val \in Values
                       /\ \A r \in DOMAIN left' : e.addr \notin left'[r]
    BY <1>4, <2>1 DEF PsInv, MapInv
  <2>3. \A e \in map : /\ e.addr \in Aligned /\ e.val \in Values
                       /\ \A r \in DOMAIN left' : e.addr \notin left'[r]
    BY <1>2 DEF PsInv, MapInv
  <2> QED BY <1>5, <2>2, <2>3
<1>7. \A e, f \in map' : e.addr = f.addr => e = f
  <2>1. \A e, f \in new : e.addr = f.addr => e = f
    BY <1>4
  <2>2. \A e \in map, f \in new : e.addr # f.addr
    BY <1>2, <1>4 DEF PsInv, MapInv
  <2> QED BY <1>5, <2>1, <2>2 DEF PsInv, MapInv, MapOK
<1>8. MapOK'
  <2>1. Aligned \subseteq 0..MaxAddress /\ Values \subseteq Nat
    BY CommittedIs, PointerConstants DEF PsInv, MapInv
  <2>2. \A e \in map' : e.addr \in 0..MaxAddress
    BY <1>6, <2>1
  <2>3. IsFiniteSet(map')
    BY <1>7, <2>2, FiniteMap
  <2>4. \A e \in new : e \in Entries
    <3>1. \A e \in new : e.addr \in Nat /\ e.val \in Nat
      BY <1>4, <2>1, PointerConstants DEF PsInv, MapInv
    <3> QED BY <1>4, <3>1 DEF Entries
  <2>5. map' \in SUBSET Entries
    BY <1>5, <2>4 DEF PsInv, MapInv, MapOK
  <2> QED BY <1>7, <2>3, <2>5 DEF MapOK
<1>9. Aligned' = Aligned
  BY <1>1 DEF Aligned
<1>10. MapInv'
  BY <1>1, <1>2, <1>3, <1>6, <1>8, <1>9 DEF PsInv, MapInv
<1>11. SearchInv'
  BY DEF PsInv, SearchInv, MapRegion
<1> QED BY <1>10, <1>11 DEF PsInv

LEMMA PokeKeeps == ASSUME PsInv, Poke PROVE PsInv'
<1>1. PICK a \in Aligned, v \in Values : memory' = [memory EXCEPT ![a] = v]
  BY DEF Poke
<1>2. Aligned' = Aligned /\ memory' \in [Aligned -> Values]
  BY <1>1 DEF PsInv, MapInv, Aligned
<1>3. MapOK'
  BY DEF PsInv, MapInv, MapOK, Poke
<1>4. MapInv'
  BY <1>2, <1>3 DEF PsInv, MapInv, Poke
<1>5. SearchInv'
  BY DEF PsInv, SearchInv, Poke
<1> QED BY <1>4, <1>5 DEF PsInv

\* The search does not touch the map.
LEMMA MapStays == ASSUME MapInv, UNCHANGED <<memory, left, map>> PROVE MapInv'
<1>1. MapOK'
  BY DEF MapInv, MapOK
<1>2. Aligned' = Aligned
  BY DEF Aligned
<1> QED BY <1>1, <1>2 DEF MapInv

LEMMA CancelKeeps == ASSUME PsInv, CancelSearch PROVE PsInv'
<1>1. MapInv'
  BY MapStays DEF PsInv, CancelSearch
<1>2. UNCHANGED <<map, target, stack, found, phase, whole>> /\ cancel' = TRUE
  BY DEF CancelSearch
<1>3. /\ SearchOK(stack, found) => SearchOK(stack, found)'
      /\ NoneLost(stack, found) => NoneLost(stack, found)'
  BY <1>2, Steady
<1>4. stack = <<>> => stack' = <<>>
  BY <1>2
<1>5. SearchInv'
  BY <1>2, <1>3, <1>4 DEF PsInv, SearchInv
<1> QED BY <1>1, <1>5 DEF PsInv

LEMMA SearchKeeps ==
  ASSUME PsInv, StartSearch \/ VisitStatic \/ VisitHeap \/ Return
  PROVE  PsInv'
<1>1. UNCHANGED <<memory, target, left, map, cancel>>
  BY DEF StartSearch, VisitStatic, VisitHeap, Return
<1>2. MapInv'
  BY <1>1, MapStays DEF PsInv
<1>3. MapOK /\ target \in Nat /\ SearchInv
  BY TargetIs DEF PsInv, MapInv, SearchInv
<1>4. phase = "search" => /\ stack # <<>> /\ SearchOK(stack, found) /\ NoneLost(stack, found)
                          /\ Len(found) \in Nat /\ Len(found) < MaxResults
  BY <1>3 DEF SearchInv, SearchOK
<1>5. CASE StartSearch
  <2>1. Len(<<>>) <= MaxResults
    BY PointerConstants
  <2> QED BY <1>1, <1>2, <1>3, <1>5, <2>1, StartFinds, ProceedKeeps DEF StartSearch, PsInv
<1>6. CASE VisitStatic
  <2>1. Len(Append(found, ChainOf(Taken))) <= MaxResults
    <3>1. found \in Seq(Chains)
      BY <1>4, <1>6 DEF VisitStatic, SearchOK
    <3> QED BY <1>4, <1>6, <3>1, PointerConstants DEF VisitStatic
  <2>2. /\ SearchOK(Skipped, Append(found, ChainOf(Taken)))
        /\ NoneLost(Skipped, Append(found, ChainOf(Taken)))
    BY <1>3, <1>4, <1>6, VisitStaticFinds DEF VisitStatic
  <2> QED BY <1>1, <1>2, <1>3, <1>6, <2>1, <2>2, ProceedKeeps DEF VisitStatic, PsInv
<1>7. CASE VisitHeap
  <2> DEFINE calls == IF Len(stack) < MaxDepth THEN Append(Skipped, CallFor(Taken.addr)) ELSE Skipped
  <2>1. SearchOK(calls, found) /\ NoneLost(calls, found)
    BY <1>3, <1>4, <1>7, VisitHeapFinds DEF VisitHeap
  <2>2. Proceed(calls, found) /\ Len(found) <= MaxResults
    BY <1>4, <1>7, PointerConstants DEF VisitHeap
  <2> HIDE DEF calls
  <2> QED BY <1>1, <1>2, <1>3, <2>1, <2>2, ProceedKeeps DEF PsInv
<1>8. CASE Return
  <2>1. SearchOK(Front(stack), found) /\ NoneLost(Front(stack), found)
    BY <1>4, <1>8, ReturnFinds DEF Return
  <2>2. Len(found) <= MaxResults
    BY <1>4, <1>8, PointerConstants DEF Return
  <2> QED BY <1>1, <1>2, <1>3, <1>8, <2>1, <2>2, ProceedKeeps DEF Return, PsInv
<1> QED BY <1>5, <1>6, <1>7, <1>8

LEMMA NextPsInv == PsInv /\ [PsNext]_psVars => PsInv'
<1> SUFFICES ASSUME PsInv, [PsNext]_psVars PROVE PsInv'
  OBVIOUS
<1>1. CASE MapRegion
  BY <1>1, MapRegionKeeps
<1>2. CASE StartSearch \/ VisitStatic \/ VisitHeap \/ Return
  BY <1>2, SearchKeeps
<1>3. CASE CancelSearch
  BY <1>3, CancelKeeps
<1>4. CASE Poke
  BY <1>4, PokeKeeps
<1>5. CASE UNCHANGED psVars
  <2>1. MapInv'
    BY <1>5, MapStays DEF PsInv, psVars
  <2>2. /\ SearchOK(stack, found) => SearchOK(stack, found)'
        /\ NoneLost(stack, found) => NoneLost(stack, found)'
    BY <1>5, Steady DEF psVars
  <2>3. UNCHANGED <<target, cancel, whole, phase, stack, found>>
    BY <1>5 DEF psVars
  <2>4. stack = <<>> => stack' = <<>>
    BY <2>3
  <2>5. SearchInv'
    BY <2>2, <2>3, <2>4 DEF PsInv, SearchInv
  <2> QED BY <2>1, <2>5 DEF PsInv
<1> QED BY <1>1, <1>2, <1>3, <1>4, <1>5 DEF PsNext

\* The invariant of the map and of the stack of calls holds throughout a scan.
THEOREM PointerInv == PsSpec => []PsInv
<1> QED BY PsInitInv, NextPsInv, PTL DEF PsSpec

\* The pointer scan finds chains only, each once, and all of them when neither the
\* limit of results nor the user stops it, however the game writes while the map is
\* made and whatever the pointers in memory (build_pointer_map, search_rec).
THEOREM PointerChainsAreExact == PsSpec => []ChainsAreExact
<1>1. PsInv => ChainsAreExact
  <2> SUFFICES ASSUME PsInv PROVE ChainsAreExact
    OBVIOUS
  <2>1. /\ found \in Seq(Chains)
        /\ \A j, k \in 1..Len(found) : found[j] = found[k] => j = k
    <3>1. <<>> \in Seq(Chains) /\ Len(<<>>) = 0
      OBVIOUS
    <3>2. CASE found = <<>>
      BY <3>1, <3>2
    <3>3. CASE \E calls : SearchOK(calls, found)
      BY <3>3 DEF SearchOK
    <3> QED BY <3>2, <3>3 DEF PsInv, SearchInv
  <2>2. \A j \in DOMAIN found : found[j] \in Chains
    BY <2>1
  <2>3. Cardinality(ToSet(found)) = Len(found)
    <3>1. Len(found) \in Nat /\ IsFiniteSet(1..Len(found)) /\ Cardinality(1..Len(found)) = Len(found)
      BY <2>1, FS_Interval
    <3>2. found \in [1..Len(found) -> ToSet(found)]
      BY <2>1 DEF ToSet
    <3>3. found \in Injection(1..Len(found), ToSet(found))
      BY <2>1, <3>2 DEF Injection, IsInjective
    <3>4. found \in Surjection(1..Len(found), ToSet(found))
      BY <2>1, <3>2 DEF Surjection, ToSet
    <3> QED BY <3>1, <3>3, <3>4, FS_Surjection
  <2>4. ASSUME phase = "done", whole PROVE ToSet(found) = Chains
    <3>1. NoneLost(<<>>, found)
      BY <2>4 DEF PsInv, SearchInv
    <3>2. \A c \in Chains : \E j \in 1..Len(found) : found[j] = c
      BY <3>1 DEF NoneLost, Pending
    <3> QED BY <2>1, <3>2 DEF ToSet
  <2> QED BY <2>2, <2>3, <2>4 DEF ChainsAreExact
<1> QED BY <1>1, PointerInv, PTL

LEMMA PsTypes == PsInv => PsTypeOK
<1> SUFFICES ASSUME PsInv PROVE PsTypeOK
  OBVIOUS
<1>1. target \in 0..MaxAddress /\ Aligned \subseteq 0..MaxAddress
  BY CommittedIs, PointerConstants DEF PsInv, MapInv, SearchInv
<1>2. Len(found) <= MaxResults
  BY PointerConstants DEF PsInv, SearchInv, SearchOK
<1>3. StackOK(stack)
  <2>1. StackOK(<<>>)
    BY PointerConstants DEF StackOK
  <2> QED BY <2>1 DEF PsInv, SearchInv, SearchOK
<1>4. ASSUME NEW j \in DOMAIN stack PROVE stack[j].target \in 0..MaxAddress
  <2>1. j \in 1..Len(stack) /\ Len(stack) \in Nat
    BY <1>3 DEF StackOK
  <2>2. CASE j = 1
    BY <1>1, <1>3, <2>1, <2>2 DEF StackOK
  <2>3. CASE j # 1
    <3>1. j \in 2..Len(stack)
      BY <2>1, <2>3
    <3>2. PICK e \in map : e.addr = stack[j].target
      BY <1>3, <3>1 DEF StackOK, Reach
    <3> QED BY <1>1, <3>2 DEF PsInv, MapInv
  <2> QED BY <2>2, <2>3
<1>5. phase \in {"map", "search", "done"} /\ cancel \in BOOLEAN /\ whole \in BOOLEAN
      /\ target \in Targets
  BY DEF PsInv, SearchInv
<1>6. memory \in [Aligned -> Values] /\ left \in Seq(SUBSET Committed)
      /\ \A e \in map : e.addr \in Aligned /\ e.val \in Values
  BY DEF PsInv, MapInv
<1> QED BY <1>2, <1>4, <1>5, <1>6 DEF PsTypeOK

\* Every variable of the pointer scan keeps its type.
THEOREM PointerTypes == PsSpec => []PsTypeOK
<1> QED BY PsTypes, PointerInv, PTL

-----------------------------------------------------------------------------
(* Jobs with one slot.                                                     *)

LEMMA JbStarts == JbInit => JbTypeOK
<1> SUFFICES ASSUME JbInit PROVE JbTypeOK
  OBVIOUS
<1>1. job \in Job /\ slot = 0 /\ asked = 0 /\ worker = "none" /\ cancelled = FALSE /\ shown = 0
  BY DEF JbInit
<1>2. slot \in 0..asked /\ asked \in 0..MaxRequests /\ shown \in 0..asked
  BY <1>1, JobsConstants
<1>3. worker \in {"none", "running", "sent", "dead"} /\ cancelled \in BOOLEAN
  BY <1>1
<1>4. worker = "none" <=> slot = 0
  BY <1>1
<1> QED
  BY <1>1, <1>2, <1>3, <1>4 DEF JbTypeOK

LEMMA JbTypesKept == JbTypeOK /\ [JbNext]_jbVars => JbTypeOK'
<1> SUFFICES ASSUME JbTypeOK, [JbNext]_jbVars PROVE JbTypeOK'
  OBVIOUS
<1> USE JobsConstants DEF JbTypeOK
<1>1. CASE Begin /\ shown' \in {0, shown}
  <2>1. asked + 1 \in 0..MaxRequests /\ asked' = asked + 1 /\ slot' = asked + 1
    BY <1>1 DEF Begin
  <2>2. worker' = "running" /\ cancelled' = FALSE /\ job' = job
    BY <1>1 DEF Begin
  <2>3. slot' \in 0..asked' /\ shown' \in 0..asked'
    BY <1>1, <2>1
  <2>4. worker' = "none" <=> slot' = 0
    BY <2>1, <2>2
  <2> QED
    BY <2>1, <2>2, <2>3, <2>4
<1>2. CASE UNCHANGED jbVars \/ CancelJob
  BY <1>2 DEF jbVars, CancelJob
<1>3. ASSUME NEW how \in {"sent", "dead"}, Ends(how) PROVE JbTypeOK'
  BY <1>3 DEF Ends
<1>4. CASE Shows \/ Closed
  BY <1>4 DEF Shows, Closed, Free
<1> QED
  BY <1>1, <1>2, <1>3, <1>4
     DEF JbNext, DoPointerScan, DoAobScan, RunScript, SendRequest, FetchMatch, ScanSends,
         ScriptSends, RequestSends, Die, Poll, PollPtrTask, PollAobTask, PollLcu, PollLiveClient,
         PollScriptTask

\* A slot, its worker and what is shown keep their types, and the slot is free exactly
\* when there is no worker (the poll functions).
THEOREM JobsTypes == JbInit /\ [][JbNext]_jbVars => []JbTypeOK
  BY JbStarts, JbTypesKept, PTL

-----------------------------------------------------------------------------
(* The feeds of events.                                                    *)

Readers == {"none", "connecting", "reading", "ended"}
States  == {"none", "connecting", "connected", "disconnected", "error"}

\* What was cleared lies before what has come.
FeedInv ==
  /\ feed \in 0..MaxFeeds /\ opened \in 0..MaxFeeds /\ frame \in 0..MaxFrames
  /\ reader \in [Feeds -> Readers] /\ says \in [Feeds -> States]
  /\ halt \in [Feeds -> BOOLEAN] /\ cleared \in [Feeds -> 0..MaxFrames]
  /\ buffer \in [Feeds -> Seq(Nat)]
  /\ \A w \in Feeds :
       /\ cleared[w] <= frame /\ Len(buffer[w]) <= MaxEvents
       /\ \A j \in 1..Len(buffer[w]) : buffer[w][j] \in cleared[w] + 1..frame

\* The buffer keeps what it had, or less, and no more than its limit.
LEMMA KeepIs ==
  ASSUME NEW s \in Seq(Nat)
  PROVE  /\ Keep(s) \in Seq(Nat) /\ Len(Keep(s)) <= MaxEvents
         /\ \A j \in 1..Len(Keep(s)) : \E k \in 1..Len(s) : Keep(s)[j] = s[k]
<1> DEFINE d == IF Len(s) > MaxEvents THEN Len(s) - MaxEvents ELSE 0
<1>1. d \in Nat /\ d <= Len(s) /\ Len(s) - d <= MaxEvents
  BY FeedConstants
<1>2. Keep(s) = SubSeq(s, 1 + d, Len(s))
  BY DEF Keep
<1> HIDE DEF d
<1>3. Len(s) \in Nat /\ 1 + d \in 1..(Len(s) + 1)
  BY <1>1
<1>4. Keep(s) \in Seq(Nat) /\ Len(Keep(s)) = Len(s) - d
  BY <1>1, <1>2, <1>3
<1>5. \A j \in 1..(Len(s) - d) : Keep(s)[j] = s[d + j]
  BY <1>1, <1>2, <1>3
<1>6. \A j \in 1..(Len(s) - d) : d + j \in 1..Len(s)
  BY <1>1, <1>3
<1>7. Len(Keep(s)) <= MaxEvents
  BY <1>1, <1>4
<1> QED
  BY <1>4, <1>5, <1>6, <1>7

LEMMA FeedInvKept == FeedInv /\ [EfNext]_efVars => FeedInv'
<1> SUFFICES ASSUME FeedInv, [EfNext]_efVars PROVE FeedInv'
  OBVIOUS
<1> USE FeedConstants DEF FeedInv
<1>1. CASE UNCHANGED efVars
  BY <1>1 DEF efVars
<1>2. CASE OpenFeed
  <2>1. /\ opened + 1 \in 0..MaxFeeds /\ opened' = opened + 1 /\ feed' = opened + 1
        /\ reader' = [reader EXCEPT ![opened + 1] = "connecting"]
        /\ says' = [says EXCEPT ![opened + 1] = "connecting"]
        /\ UNCHANGED <<halt, buffer, cleared, frame>>
    BY <1>2 DEF OpenFeed, Reader, Says
  <2>2. reader' \in [Feeds -> Readers] /\ says' \in [Feeds -> States]
    BY <2>1 DEF Readers, States
  <2> QED
    BY <2>1, <2>2
<1>3. CASE CloseFeed
  <2>1. /\ halt' = [halt EXCEPT ![feed] = TRUE] /\ feed' = 0
        /\ UNCHANGED <<opened, reader, says, buffer, cleared, frame>>
    BY <1>3 DEF CloseFeed
  <2>2. halt' \in [Feeds -> BOOLEAN]
    BY <2>1
  <2>3. feed' \in 0..MaxFeeds
    BY <2>1
  <2>4. \A w \in Feeds :
          /\ cleared'[w] <= frame' /\ Len(buffer'[w]) <= MaxEvents
          /\ \A j \in 1..Len(buffer'[w]) : buffer'[w][j] \in cleared'[w] + 1..frame'
    BY <2>1
  <2>5. /\ opened' \in 0..MaxFeeds /\ frame' \in 0..MaxFrames
        /\ reader' \in [Feeds -> Readers] /\ says' \in [Feeds -> States]
        /\ cleared' \in [Feeds -> 0..MaxFrames] /\ buffer' \in [Feeds -> Seq(Nat)]
    BY <2>1
  <2> QED
    BY <2>2, <2>3, <2>4, <2>5
<1>4. CASE ClearFeed
  <2>1. /\ buffer' = [buffer EXCEPT ![feed] = <<>>] /\ cleared' = [cleared EXCEPT ![feed] = frame]
        /\ UNCHANGED <<feed, opened, reader, halt, says, frame>>
    BY <1>4 DEF ClearFeed
  <2>2. <<>> \in Seq(Nat) /\ Len(<<>>) = 0
    OBVIOUS
  <2>3. buffer' \in [Feeds -> Seq(Nat)] /\ cleared' \in [Feeds -> 0..MaxFrames]
    BY <2>1, <2>2
  <2>4. ASSUME NEW w \in Feeds
        PROVE  /\ cleared'[w] <= frame /\ Len(buffer'[w]) <= MaxEvents
               /\ \A j \in 1..Len(buffer'[w]) : buffer'[w][j] \in cleared'[w] + 1..frame
    <3>1. CASE w = feed
      BY <2>1, <2>2, <3>1
    <3>2. CASE w # feed
      BY <2>1, <3>2
    <3> QED
      BY <3>1, <3>2
  <2> QED
    BY <2>1, <2>3, <2>4
<1>5. ASSUME NEW w \in Feeds, ConnectFeed(w) \/ SeesHalt(w) \/ StreamEnds(w) PROVE FeedInv'
  BY <1>5 DEF ConnectFeed, SeesHalt, StreamEnds, Reader, Says, Readers, States
<1>6. ASSUME NEW w \in Feeds, ReadEvent(w) PROVE FeedInv'
  <2>1. /\ frame' = frame + 1 /\ frame + 1 \in 0..MaxFrames
        /\ buffer' = [buffer EXCEPT ![w] = Keep(Append(@, frame'))]
        /\ UNCHANGED <<feed, opened, reader, halt, says, cleared>>
    BY <1>6 DEF ReadEvent
  <2> DEFINE s == Append(buffer[w], frame + 1)
  <2>2. s \in Seq(Nat) /\ \A k \in 1..Len(s) : s[k] \in cleared[w] + 1..frame + 1
    BY <2>1
  <2> HIDE DEF s
  <2>3. /\ Keep(s) \in Seq(Nat) /\ Len(Keep(s)) <= MaxEvents
        /\ \A j \in 1..Len(Keep(s)) : Keep(s)[j] \in cleared[w] + 1..frame + 1
    BY <2>2, KeepIs
  <2>4. buffer' = [buffer EXCEPT ![w] = Keep(s)]
    BY <2>1 DEF s
  <2>5. ASSUME NEW v \in Feeds
        PROVE  /\ cleared[v] <= frame + 1 /\ Len(buffer'[v]) <= MaxEvents
               /\ \A j \in 1..Len(buffer'[v]) : buffer'[v][j] \in cleared[v] + 1..frame + 1
    <3>1. CASE v = w
      BY <2>3, <2>4, <3>1
    <3>2. CASE v # w
      BY <2>4, <3>2
    <3> QED
      BY <3>1, <3>2
  <2> QED
    BY <2>1, <2>3, <2>4, <2>5
<1>7. ASSUME NEW w \in Feeds, ReadPanics(w) PROVE FeedInv'
  BY <1>7 DEF ReadPanics, Reader, Readers
<1> QED
  BY <1>1, <1>2, <1>3, <1>4, <1>5, <1>6, <1>7 DEF EfNext

LEMMA FeedStarts == EfInit => FeedInv
<1> SUFFICES ASSUME EfInit PROVE FeedInv
  OBVIOUS
<1>1. <<>> \in Seq(Nat) /\ Len(<<>>) = 0
  OBVIOUS
<1> QED
  BY <1>1, FeedConstants DEF EfInit, FeedInv, Readers, States

LEMMA FeedTypes == FeedInv => EfTypeOK
<1> SUFFICES ASSUME FeedInv PROVE EfTypeOK
  OBVIOUS
<1>1. \A w \in Feeds : DOMAIN buffer[w] = 1..Len(buffer[w])
  BY DEF FeedInv
<1> QED
  BY <1>1 DEF FeedInv, EfTypeOK, Readers, States

\* The readers of events keep their types, and each buffer at most MAX_EVENTS events,
\* of those that came since it was cleared and no other (handle_frame).
THEOREM FeedsAreBounded == EfInit /\ [][EfNext]_efVars => []EfTypeOK
  BY FeedStarts, FeedInvKept, FeedTypes, PTL
=============================================================================
