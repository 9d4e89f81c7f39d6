----------------------------- MODULE MCBackground -----------------------------
(* The threads that work beside the window and must end when they are told to, *)
(* instantiated for TLC: the freezers, the repeater's shot, the redirection,   *)
(* the watch, the jobs a frame polls and the feed of events. They share no     *)
(* state in the program, so a behaviour exercises one of them, named by        *)
(* `section`, which never changes; the variables of the others keep one value. *)
EXTENDS MCFreezer, Proxy, Redirect, Watch, Jobs, EventFeed, TLC

CONSTANTS c1, c2, A, B

VARIABLE section

ServerOf == (c1 :> A) @@ (c2 :> B)

all == <<section, fzVars, vars, rdVars, wtVars, jbVars, efVars>>

BackgroundInit ==
  /\ section \in {"freezer", "repeater", "redirect", "watch", "job", "feed"}
  /\ FzInit /\ (section # "freezer" => mem = [p \in Proc |-> [e \in Entry |-> Gone]])
  /\ Init
  /\ RdInit /\ (section # "redirect" => conn = [c \in Conn |-> "unused"])
  /\ WtInit /\ live = {CHOOSE t \in Thread : TRUE}
  /\ JbInit /\ (section # "job" => job = "lcu")
  /\ EfInit

In(s) == section = s /\ UNCHANGED section
NoFz  == UNCHANGED fzVars
NoPx  == UNCHANGED vars
NoRd  == UNCHANGED rdVars
NoWt  == UNCHANGED wtVars
NoJb  == UNCHANGED jbVars
NoEf  == UNCHANGED efVars

OnlyFreezer  == In("freezer")  /\ NoPx /\ NoRd /\ NoWt /\ NoJb /\ NoEf
\* The repeater meets the requests in the accept loop only (MCData has the requests).
OnlyRepeater == In("repeater") /\ NoFz /\ NoRd /\ NoWt /\ NoJb /\ NoEf
OnlyRedirect == In("redirect") /\ NoFz /\ NoPx /\ NoWt /\ NoJb /\ NoEf
OnlyWatch    == In("watch")    /\ NoFz /\ NoPx /\ NoRd /\ NoJb /\ NoEf
OnlyJob      == In("job")      /\ NoFz /\ NoPx /\ NoRd /\ NoWt /\ NoEf
OnlyFeed     == In("feed")     /\ NoFz /\ NoPx /\ NoRd /\ NoWt /\ NoJb

BackgroundNext ==
  \/ OnlyFreezer /\ FzNext
  \/ OnlyRepeater /\ Next /\ pc' = pc
  \/ OnlyRedirect /\ RdNext
  \/ OnlyWatch /\ WtNext
  \/ OnlyJob /\ JbNext
  \/ OnlyFeed /\ EfNext

\* The fairness of each: a thread goes on unless it waits for something outside the
\* program, as a direction of a bridge does for the other end to read what it writes (it
\* stops only when it reads: DirectionStops). A disjunction of steps of several sections
\* is fair to each of them. Of freezers, starts of the proxy, watches and feeds there are
\* two.
BackgroundSpec ==
  /\ BackgroundInit /\ [][BackgroundNext]_all
  /\ \A k \in 1..2 :
       /\ WF_all(\/ OnlyFreezer /\ FreezerThread(k)
                 \/ OnlyRepeater /\ (Bind(k) \/ BindFails(k))
                 \/ OnlyWatch /\ DebugLoop(k)
                 \/ OnlyFeed /\ SeesHalt(k))
       /\ WF_all(OnlyRepeater /\ StopLoop(k))
  /\ WF_all(\/ OnlyRepeater /\ PollShot
            \/ OnlyRedirect /\ Refresher
            \/ OnlyJob /\ Poll)
  /\ WF_all(\/ OnlyRedirect /\ Divert
            \/ OnlyJob /\ job \in Scan /\ (ScanSends \/ Die))
  /\ WF_all(OnlyRedirect /\ ListenerEnds)
  /\ \A c \in Conn :
       /\ WF_all(OnlyRedirect /\ BridgeConnects(c))
       /\ \A d \in Way : WF_all(OnlyRedirect /\ DirectionStops(c, d))

\* Every variable of the component at work keeps its type.
BackgroundTypeOK ==
  /\ section = "freezer" => FzTypeOK
  /\ section = "repeater" => TypeOK
  /\ section = "redirect" => RdTypeOK
  /\ section = "watch" => WtTypeOK
  /\ section = "job" => JbTypeOK
  /\ section = "feed" => EfTypeOK

\* JobsEnd, DroppedWatchEnds, DroppedFeedEnds: work in the background ends, and
\* leaves room for the next.
WorkEnds == JobsEnd /\ DroppedWatchEnds /\ DroppedFeedEnds
=============================================================================
