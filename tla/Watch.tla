-------------------------------- MODULE Watch --------------------------------
(***************************************************************************)
(* "What writes to this address": a thread of the program attaches to the  *)
(* game as its debugger and sets debug register 0 of every thread of the   *)
(* game; an access then raises a single step, which the debugger counts.   *)
(*                                                                         *)
(* Windows lets one debugger attach to a process, reports every thread to  *)
(* it before that thread runs, and suspends the process while an event is  *)
(* not continued. A single step nobody handles ends the process. That      *)
(* setting a register succeeds is assumed.                                 *)
(***************************************************************************)
EXTENDS Integers, Sequences, FiniteSets

CONSTANTS
  Thread,       \* threads the game may have
  MaxWatches,   \* watches started
  MaxAccesses,  \* accesses to the watched address
  NoWatch

Watches == 1..MaxWatches

ASSUME WatchConstants ==
  MaxWatches \in Nat /\ MaxAccesses \in Nat /\ NoWatch \notin Watches

VARIABLES
  mvWatch,      \* mv_watch: the watch of the panel, or NoWatch
  started,      \* how many there have been
  loop,         \* debug_loop of each: "none", "attach", "check", "wait", "ended"
  quit,         \* its stop flag
  status,       \* "none", "attaching", "failed", "monitoring", "stopped"
  threads,      \* the threads it knows
  hits,         \* the accesses it counted
  debugger,     \* the watch that is the game's debugger, or NoWatch
  events,       \* debug events not yet continued
  live, armed,  \* the game's threads, and those with the register set
  game,         \* "running", "killed", "over"
  raised,       \* single steps raised under each watch
  unseen,       \* accesses under each watch by threads without the register
  accesses

wtVars == <<mvWatch, started, loop, quit, status, threads, hits, debugger, events, live, armed,
            game, raised, unseen, accesses>>

gameVars == <<live, armed, game, raised, unseen, accesses>>

-----------------------------------------------------------------------------
(* The panel.                                                              *)

Dropped(w) == IF w = NoWatch THEN quit ELSE [quit EXCEPT ![w] = TRUE]

\* start_watch, by the button of the viewer or from the list of results. The new watch
\* is made before the old handle is dropped.
StartWatch ==
  /\ started < MaxWatches /\ game = "running"
  /\ started' = started + 1
  /\ mvWatch' = started'
  /\ loop' = [loop EXCEPT ![started'] = "attach"]
  /\ status' = [status EXCEPT ![started'] = "attaching"]
  /\ quit' = Dropped(mvWatch)
  /\ UNCHANGED <<threads, hits, debugger, events, gameVars>>

StopWatch ==
  /\ mvWatch # NoWatch
  /\ quit' = Dropped(mvWatch)
  /\ mvWatch' = NoWatch
  /\ UNCHANGED <<started, loop, status, threads, hits, debugger, events, gameVars>>

-----------------------------------------------------------------------------
(* debug_loop                                                              *)

\* DebugActiveProcess: fails under another debugger; else the threads are reported.
AttachDebugger(w) ==
  /\ loop[w] = "attach"
  /\ IF debugger # NoWatch \/ game # "running"
     THEN /\ loop' = [loop EXCEPT ![w] = "ended"]
          /\ status' = [status EXCEPT ![w] = "failed"]
          /\ UNCHANGED <<debugger, events>>
     ELSE /\ loop' = [loop EXCEPT ![w] = "check"]
          /\ status' = [status EXCEPT ![w] = "monitoring"]
          /\ debugger' = w
          /\ events' = {[kind |-> "create", thread |-> t] : t \in live}
  /\ UNCHANGED <<mvWatch, started, quit, threads, hits, gameVars>>

Detach(w) ==
  /\ debugger' = NoWatch /\ events' = {}
  /\ loop' = [loop EXCEPT ![w] = "ended"]
  /\ status' = [status EXCEPT ![w] = "stopped"]

\* The flag is read before every wait. What becomes of a single step that was raised
\* and not fetched is not documented: it is lost, or the game's to handle.
CheckQuit(w) ==
  /\ loop[w] = "check"
  /\ IF quit[w]
     THEN /\ Detach(w)
          /\ game' \in {game} \cup {"killed" : e \in {f \in events : f.kind = "step"}}
     ELSE loop' = [loop EXCEPT ![w] = "wait"] /\ UNCHANGED <<debugger, events, status, game>>
  /\ UNCHANGED <<mvWatch, started, quit, threads, hits, live, armed, raised, unseen, accesses>>

\* Quarry is closed, its threads with it: the game is not killed on exit, it goes on
\* without a debugger. (Quarry may be opened again.)
CloseQuarry ==
  /\ debugger # NoWatch
  /\ mvWatch' = NoWatch
  /\ loop' = [w \in Watches |-> IF loop[w] = "none" THEN "none" ELSE "ended"]
  /\ debugger' = NoWatch /\ events' = {}
  /\ game' \in {game} \cup {"killed" : e \in {f \in events : f.kind = "step"}}
  /\ UNCHANGED <<started, quit, status, threads, hits, live, armed, raised, unseen, accesses>>

\* WaitForDebugEvent gives up after 200 ms.
WaitTimesOut(w) ==
  /\ loop[w] = "wait" /\ events = {}
  /\ loop' = [loop EXCEPT ![w] = "check"]
  /\ UNCHANGED <<mvWatch, started, quit, status, threads, hits, debugger, events, gameVars>>

\* A plausible bug: only the threads there are at the start are watched.
ArmFirst(w, t) == IF threads[w] = {} \/ t \in armed THEN armed \cup {t} ELSE armed

\* arm_thread
Arm(w, t) == armed \cup {t}

\* One event is handled and continued.
HandleEvent(w) ==
  /\ loop[w] = "wait"
  /\ \E e \in events :
       /\ \A d \in events : d.kind = "create" => e.kind = "create"
       /\ events' = events \ {e}
       /\ CASE e.kind = "create" ->
                 /\ threads' = [threads EXCEPT ![w] = @ \cup {e.thread}]
                 /\ armed' = Arm(w, e.thread)
                 /\ UNCHANGED hits
            [] e.kind = "exit" ->
                 /\ threads' = [threads EXCEPT ![w] = @ \ {e.thread}]
                 /\ UNCHANGED <<armed, hits>>
            [] e.kind = "step" ->
                 /\ hits' = [hits EXCEPT ![w] = @ + (IF e.thread \in threads[w] THEN 1 ELSE 0)]
                 /\ UNCHANGED <<threads, armed>>
            [] e.kind = "over" -> UNCHANGED <<threads, armed, hits>>
       /\ IF e.kind = "over"
          THEN /\ debugger' = NoWatch
               /\ loop' = [loop EXCEPT ![w] = "ended"]
               /\ status' = [status EXCEPT ![w] = "stopped"]
          ELSE loop' = [loop EXCEPT ![w] = "check"] /\ UNCHANGED <<debugger, status>>
  /\ UNCHANGED <<mvWatch, started, quit, live, game, raised, unseen, accesses>>

-----------------------------------------------------------------------------
(* The game. It runs while no event is outstanding.                        *)

Runs == game = "running" /\ events = {}

Report(kind, t) == events' = IF debugger = NoWatch THEN {} ELSE {[kind |-> kind, thread |-> t]}

CreateThread ==
  /\ Runs
  /\ \E t \in Thread \ live : live' = live \cup {t} /\ Report("create", t)
  /\ UNCHANGED <<mvWatch, started, loop, quit, status, threads, hits, debugger, armed, game,
                 raised, unseen, accesses>>

ExitThread ==
  /\ Runs /\ Cardinality(live) > 1
  /\ \E t \in live : live' = live \ {t} /\ armed' = armed \ {t} /\ Report("exit", t)
  /\ UNCHANGED <<mvWatch, started, loop, quit, status, threads, hits, debugger, game, raised,
                 unseen, accesses>>

\* A thread reads or writes the watched address.
Access(t) ==
  /\ Runs /\ t \in live /\ accesses < MaxAccesses
  /\ accesses' = accesses + 1
  /\ IF t \in armed
     THEN IF debugger = NoWatch
          THEN game' = "killed" /\ UNCHANGED <<events, raised>>
          ELSE /\ Report("step", t)
               /\ raised' = [raised EXCEPT ![debugger] = @ + 1]
               /\ UNCHANGED game
     ELSE UNCHANGED <<events, raised, game>>
  /\ unseen' = IF debugger # NoWatch /\ t \notin armed
               THEN [unseen EXCEPT ![debugger] = @ + 1] ELSE unseen
  /\ UNCHANGED <<mvWatch, started, loop, quit, status, threads, hits, debugger, live, armed>>

GameOver ==
  /\ Runs
  /\ game' = "over" /\ live' = {} /\ armed' = {}
  /\ \E t \in live : Report("over", t)
  /\ UNCHANGED <<mvWatch, started, loop, quit, status, threads, hits, debugger, raised, unseen,
                 accesses>>

-----------------------------------------------------------------------------
WtInit ==
  /\ mvWatch = NoWatch /\ started = 0
  /\ loop = [w \in Watches |-> "none"] /\ quit = [w \in Watches |-> FALSE]
  /\ status = [w \in Watches |-> "none"]
  /\ threads = [w \in Watches |-> {}] /\ hits = [w \in Watches |-> 0]
  /\ debugger = NoWatch /\ events = {}
  /\ \E t \in Thread : live = {t}
  /\ armed = {} /\ game = "running"
  /\ raised = [w \in Watches |-> 0] /\ unseen = [w \in Watches |-> 0] /\ accesses = 0

DebugLoop(w) == AttachDebugger(w) \/ CheckQuit(w) \/ WaitTimesOut(w) \/ HandleEvent(w)

WtNext ==
  \/ StartWatch \/ StopWatch \/ CloseQuarry
  \/ \E w \in Watches : AttachDebugger(w) \/ CheckQuit(w) \/ WaitTimesOut(w) \/ HandleEvent(w)
  \/ CreateThread \/ ExitThread \/ GameOver
  \/ \E t \in Thread : Access(t)

WtSpec == WtInit /\ [][WtNext]_wtVars

-----------------------------------------------------------------------------
(* Properties.                                                             *)

WtTypeOK ==
  /\ mvWatch \in Watches \cup {NoWatch} /\ started \in 0..MaxWatches
  /\ \A w \in Watches :
       /\ loop[w] \in {"none", "attach", "check", "wait", "ended"}
       /\ status[w] \in {"none", "attaching", "failed", "monitoring", "stopped"}
       /\ quit[w] \in BOOLEAN /\ threads[w] \subseteq Thread
       /\ {hits[w], raised[w], unseen[w]} \subseteq 0..MaxAccesses
  /\ debugger \in Watches \cup {NoWatch}
  /\ \A e \in events : e.kind \in {"create", "exit", "step", "over"} /\ e.thread \in Thread
  /\ armed \subseteq live /\ live \subseteq Thread
  /\ game \in {"running", "killed", "over"} /\ accesses \in 0..MaxAccesses

\* While a watch is the game's debugger no access of the game escapes it, of whichever
\* thread and however soon after its creation, each is counted once and none ends the
\* game (debug_loop, arm_thread, consume_hit). What an access does after the watch has
\* left is the subject of ClosingSparesGame.
WatchSeesEveryAccess ==
  /\ \A w \in Watches : unseen[w] = 0
  /\ debugger # NoWatch =>
       /\ game # "killed"
       /\ raised[debugger] = hits[debugger] + Cardinality({e \in events : e.kind = "step"})

\* A watch that is dropped ends and gives the game back, though the game may be idle:
\* the wait is a short one (debug_loop). (The flag is never taken back.)
DroppedWatchEnds == []<>(\A w \in Watches : quit[w] => loop[w] = "ended" /\ debugger # w)

\* "fechar o Quarry NAO deve matar o alvo": no watch, while it lasts or after it has
\* left, ends the game.
ClosingSparesGame == game # "killed"
=============================================================================
