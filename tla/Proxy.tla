-------------------------------- MODULE Proxy --------------------------------
(***************************************************************************)
(* The intercepting proxy. The GUI thread starts and stops it              *)
(* (proxy::start, ProxyHandle), switches the interception, edits and       *)
(* decides on the first item of Shared.pending, and shoots the repeater.   *)
(* Each start is a generation: it has its own Shared, thread, runtime and  *)
(* accept loop (serve), while the GUI's editor and repeater slot outlive   *)
(* it. Every request is a task of its generation's runtime (forward).      *)
(*                                                                         *)
(* A text (headers and body) is known by the item it was shown under: the  *)
(* request it belongs to, whether it is its request or its reply, and the  *)
(* item's id. Match & Replace, TLS, and what is typed in the editor change *)
(* a text's content only, and are left out.                                *)
(***************************************************************************)
EXTENDS Integers, Sequences

CONSTANTS
  Req,       (* requests of clients                                        *)
  MaxStarts, (* bound on the number of starts                              *)
  Cap,       (* CAP of record                                              *)
  None       (* no generation, no id, no text, no decision                 *)

Gen     == 1..MaxStarts
Kind    == {"request", "reply"}
Text    == [of : Req, kind : Kind, id : Nat]
Verdict == {"forward", "follow", "drop"}
Done    == [verdict : Verdict, text : Text]

ASSUME ConstantsAssumption ==
  /\ MaxStarts \in Nat \ {0} /\ Cap \in Nat \ {0}
  /\ None \notin Nat \cup Req \cup Done

VARIABLES
  handle,    (* App.proxy: the generation the GUI holds                    *)
  serve,     (* the accept loop of each generation                         *)
  intercept, (* Shared.intercept                                           *)
  counter,   (* Shared.counter                                             *)
  pending,   (* Shared.pending, oldest first                               *)
  flows,     (* Shared.flows: requests recorded, oldest first              *)
  pc,        (* where forward stands                                       *)
  home,      (* generation that accepted the request                       *)
  item,      (* id under which the request or its reply waits              *)
  decision,  (* what the task finds in its oneshot channel                 *)
  follow,    (* intercept_resp                                             *)
  editorId,  (* App.icpt_id                                                *)
  editor,    (* App.icpt_headers, icpt_body                                *)
  repeater   (* App.rep_rx: state of the shot and its generation           *)

gui  == <<handle, editorId, editor>>
task == <<pc, home, item, decision, follow>>
vars == <<handle, serve, intercept, counter, pending, flows, task, editorId, editor, repeater>>

Alive == {"reading", "held", "ready", "allowed", "sent", "heldReply"}

TypeOK ==
  /\ handle \in Gen \cup {None}
  /\ serve \in [Gen -> {"none", "starting", "listening", "failed", "ended"}]
  /\ intercept \in [Gen -> BOOLEAN]
  /\ counter \in [Gen -> Nat \ {0}]
  /\ pending \in [Gen -> Seq(Text)]
  /\ flows \in [Gen -> Seq(Req)]
  /\ pc \in [Req -> Alive \cup {"absent", "answered", "gone"}]
  /\ home \in [Req -> Gen \cup {None}]
  /\ item \in [Req -> Nat \cup {None}]
  /\ decision \in [Req -> Done \cup {None}]
  /\ follow \in [Req -> BOOLEAN]
  /\ editorId \in Nat \cup {None}
  /\ editor \in Text \cup {None}
  /\ repeater \in [state : {"idle", "queued", "flying", "closed", "done"},
                   gen : Gen \cup {None}]

Init ==
  /\ handle = None /\ editorId = None /\ editor = None
  /\ serve = [g \in Gen |-> "none"]
  /\ intercept = [g \in Gen |-> FALSE]
  /\ counter = [g \in Gen |-> 1]
  /\ pending = [g \in Gen |-> <<>>]
  /\ flows = [g \in Gen |-> <<>>]
  /\ pc = [r \in Req |-> "absent"]
  /\ home = [r \in Req |-> None]
  /\ item = [r \in Req |-> None]
  /\ decision = [r \in Req |-> None]
  /\ follow = [r \in Req |-> FALSE]
  /\ repeater = [state |-> "idle", gen |-> None]

-----------------------------------------------------------------------------
(* Start, stop and the accept loop.                                        *)

\* "Iniciar"
Start(g) ==
  /\ handle = None /\ serve[g] = "none"
  /\ \A f \in Gen : f < g => serve[f] # "none"
  /\ handle' = g
  /\ serve' = [serve EXCEPT ![g] = "starting"]
  /\ UNCHANGED <<intercept, counter, pending, flows, task, editorId, editor, repeater>>

\* "Parar": dropping the handle only sends on the shutdown channel.
Stop ==
  /\ handle # None
  /\ handle' = None
  /\ UNCHANGED <<serve, intercept, counter, pending, flows, task, editorId, editor, repeater>>

\* The port is bound: it may be another one than that of a loop which was told to
\* stop and has not noticed.
Bind(g) ==
  /\ serve[g] = "starting"
  /\ serve' = [serve EXCEPT ![g] = "listening"]
  /\ UNCHANGED <<gui, intercept, counter, pending, flows, task, repeater>>

\* A plausible bug: the shot keeps the reply channel of a job nobody takes.
CloseNothing(g) == repeater' = repeater

\* The channels of a runtime that is dropped are closed.
CloseRepeater(g) ==
  repeater' = IF repeater.gen = g /\ repeater.state \in {"queued", "flying"}
              THEN [repeater EXCEPT !.state = "closed"]
              ELSE repeater

\* The CA, the port or the runtime is missing: serve returns an error.
BindFails(g) ==
  /\ serve[g] = "starting"
  /\ serve' = [serve EXCEPT ![g] = "failed"]
  /\ CloseRepeater(g)
  /\ UNCHANGED <<gui, intercept, counter, pending, flows, task>>

\* The loop ends, told so or by an error of accept, and the runtime takes the
\* tasks with it. What they pushed stays in Shared.pending.
Shutdown(g) ==
  /\ serve[g] = "listening"
  /\ \E how \in {"ended", "failed"} :
       /\ how = "ended" => handle # g
       /\ serve' = [serve EXCEPT ![g] = how]
  /\ LET lost == {r \in Req : home[r] = g /\ pc[r] \in Alive} IN
       /\ pc' = [r \in Req |-> IF r \in lost THEN "gone" ELSE pc[r]]
       /\ item' = [r \in Req |-> IF r \in lost THEN None ELSE item[r]]
       /\ decision' = [r \in Req |-> IF r \in lost THEN None ELSE decision[r]]
       /\ follow' = [r \in Req |-> IF r \in lost THEN FALSE ELSE follow[r]]
  /\ CloseRepeater(g)
  /\ UNCHANGED <<gui, intercept, counter, pending, flows, home>>

-----------------------------------------------------------------------------
(* forward, one task per request.                                          *)

Arrive(r) ==
  /\ pc[r] = "absent"
  /\ \E g \in Gen :
       /\ serve[g] = "listening"
       /\ home' = [home EXCEPT ![r] = g]
  /\ pc' = [pc EXCEPT ![r] = "reading"]
  /\ UNCHANGED <<gui, serve, intercept, counter, pending, flows, item, decision, follow, repeater>>

\* What a finished task knew goes with it.
Forget(r) ==
  /\ item' = [item EXCEPT ![r] = None]
  /\ decision' = [decision EXCEPT ![r] = None]
  /\ follow' = [follow EXCEPT ![r] = FALSE]

Finish(r) ==
  /\ pc' = [pc EXCEPT ![r] = "answered"]
  /\ Forget(r)
  /\ UNCHANGED <<counter, pending, flows>>

\* pause, with the view that next_id numbers. Another task may draw and push in
\* between: the order of ids is not that of the queue, and nothing relies on it.
Pause(r, k) ==
  LET g == home[r] IN
  /\ pending' = [pending EXCEPT ![g] = Append(@, [of |-> r, kind |-> k, id |-> counter[g]])]
  /\ counter' = [counter EXCEPT ![g] = @ + 1]
  /\ item' = [item EXCEPT ![r] = counter[g]]
  /\ UNCHANGED decision
  /\ pc' = [pc EXCEPT ![r] = IF k = "request" THEN "held" ELSE "heldReply"]

\* record: the history keeps the last CAP.
Record(r) ==
  LET g == home[r]
      all == Append(flows[g], r)
  IN
  /\ counter' = [counter EXCEPT ![g] = @ + 1]
  /\ flows' = [flows EXCEPT ![g] = IF Len(all) > Cap THEN Tail(all) ELSE all]
  /\ pc' = [pc EXCEPT ![r] = "answered"]
  /\ Forget(r)

\* The body is read; a request without a host or with a bad URL is answered.
Read(r) ==
  /\ pc[r] = "reading"
  /\ \/ Finish(r)
     \/ /\ intercept[home[r]]
        /\ Pause(r, "request")
        /\ UNCHANGED <<flows, follow>>
     \/ /\ ~intercept[home[r]]
        /\ pc' = [pc EXCEPT ![r] = "ready"]
        /\ UNCHANGED <<counter, pending, flows, item, decision, follow>>
  /\ UNCHANGED <<gui, serve, intercept, home, repeater>>

\* A plausible bug: every decision forwards.
TakeAny(r) ==
  /\ pc[r] = "held" /\ decision[r] # None
  /\ pc' = [pc EXCEPT ![r] = "allowed"]
  /\ follow' = [follow EXCEPT ![r] = decision[r].verdict = "follow"]
  /\ item' = [item EXCEPT ![r] = None]
  /\ decision' = [decision EXCEPT ![r] = None]
  /\ UNCHANGED <<gui, serve, intercept, counter, pending, flows, home, repeater>>

\* pause returns for the request: refused, or free with what was typed.
TakeDecision(r) ==
  /\ pc[r] = "held" /\ decision[r] # None
  /\ IF decision[r].verdict = "drop"
     THEN Finish(r)
     ELSE /\ pc' = [pc EXCEPT ![r] = "allowed"]
          /\ follow' = [follow EXCEPT ![r] = decision[r].verdict = "follow"]
          /\ item' = [item EXCEPT ![r] = None]
          /\ decision' = [decision EXCEPT ![r] = None]
          /\ UNCHANGED <<counter, pending, flows>>
  /\ UNCHANGED <<gui, serve, intercept, home, repeater>>

\* build_request may refuse what was typed; else the request leaves.
Send(r) ==
  /\ pc[r] \in {"ready", "allowed"}
  /\ \/ Finish(r)
     \/ /\ pc' = [pc EXCEPT ![r] = "sent"]
        /\ UNCHANGED <<counter, pending, flows, item, decision, follow>>
  /\ UNCHANGED <<gui, serve, intercept, home, repeater>>

\* The server answers, fails before (recorded with status 0) or after its
\* headers (not recorded).
Reply(r) ==
  /\ pc[r] = "sent"
  /\ \/ Finish(r)
     \/ Record(r) /\ UNCHANGED pending
     \/ follow[r] /\ Pause(r, "reply") /\ UNCHANGED <<flows, follow>>
  /\ UNCHANGED <<gui, serve, intercept, home, repeater>>

\* pause returns for the reply; a dropped one is not recorded.
TakeReplyDecision(r) ==
  /\ pc[r] = "heldReply" /\ decision[r] # None
  /\ IF decision[r].verdict = "drop"
     THEN Finish(r)
     ELSE Record(r) /\ UNCHANGED pending
  /\ UNCHANGED <<gui, serve, intercept, home, repeater>>

\* The client disconnects: hyper drops the task, its item stays pending.
Leave(r) ==
  /\ pc[r] \in Alive
  /\ pc' = [pc EXCEPT ![r] = "gone"]
  /\ Forget(r)
  /\ UNCHANGED <<gui, serve, intercept, counter, pending, flows, home, repeater>>

-----------------------------------------------------------------------------
(* The GUI.                                                                *)

Toggle ==
  /\ handle # None
  /\ intercept' = [intercept EXCEPT ![handle] = ~@]
  /\ UNCHANGED <<gui, serve, counter, pending, flows, task, repeater>>

\* A plausible bug: the editor is filled only when it is empty.
LoadedWhenEmpty(view) == IF editorId = None THEN view ELSE editor

\* "Carrega os buffers editaveis quando chega um item novo."
Loaded(view) == IF editorId # view.id THEN view ELSE editor

Outcome == {"look"} \cup Verdict

\* One frame of proxy_intercept: the first item is shown and maybe resolved.
\* Only a request can be followed, and a task that is gone hears nothing.
Frame(do) ==
  /\ handle # None /\ pending[handle] # <<>>
  /\ LET view == Head(pending[handle])
         r    == view.of
     IN /\ do = "follow" => view.kind = "request"
        /\ editor' = Loaded(view)
        /\ IF do = "look"
           THEN /\ editorId' = view.id
                /\ UNCHANGED <<pending, decision>>
           ELSE /\ editorId' = None
                /\ pending' = [pending EXCEPT ![handle] = Tail(@)]
                /\ decision' = IF item[r] = view.id /\ pc[r] \in {"held", "heldReply"}
                               THEN [decision EXCEPT ![r] =
                                       [verdict |-> do, text |-> Loaded(view)]]
                               ELSE decision
  /\ UNCHANGED <<handle, serve, intercept, counter, flows, pc, home, item, follow, repeater>>

ClearHistory ==
  /\ handle # None
  /\ flows' = [flows EXCEPT ![handle] = <<>>]
  /\ UNCHANGED <<gui, serve, intercept, counter, pending, task, repeater>>

\* The job of a generation whose loop is over is dropped at once.
Shoot ==
  /\ handle # None /\ repeater.state = "idle"
  /\ repeater' = [state |-> IF serve[handle] \in {"failed", "ended"} THEN "closed" ELSE "queued",
                  gen   |-> handle]
  /\ UNCHANGED <<gui, serve, intercept, counter, pending, flows, task>>

\* run_repeater
TakeShot ==
  /\ repeater.state = "queued" /\ serve[repeater.gen] = "listening"
  /\ repeater' = [repeater EXCEPT !.state = "flying"]
  /\ UNCHANGED <<gui, serve, intercept, counter, pending, flows, task>>

AnswerShot ==
  /\ repeater.state = "flying"
  /\ repeater' = [repeater EXCEPT !.state = "done"]
  /\ UNCHANGED <<gui, serve, intercept, counter, pending, flows, task>>

\* poll_repeater
PollShot ==
  /\ repeater.state \in {"closed", "done"}
  /\ repeater' = [state |-> "idle", gen |-> None]
  /\ UNCHANGED <<gui, serve, intercept, counter, pending, flows, task>>

-----------------------------------------------------------------------------
Loop(g)  == Bind(g) \/ BindFails(g) \/ Shutdown(g)
Task(r)  == Read(r) \/ TakeDecision(r) \/ Send(r) \/ TakeReplyDecision(r)

Next ==
  \/ \E g \in Gen : Start(g) \/ Loop(g)
  \/ \E r \in Req : Arrive(r) \/ Task(r) \/ Reply(r) \/ Leave(r)
  \/ \E do \in Outcome : Frame(do)
  \/ Stop \/ Toggle \/ ClearHistory \/ Shoot \/ TakeShot \/ AnswerShot \/ PollShot

Spec == Init /\ [][Next]_vars

\* Told to stop, the accept loop ends.
StopLoop(g) == Shutdown(g) /\ handle # g

-----------------------------------------------------------------------------
(* The promise.                                                            *)

StageOf(r) ==
  CASE pc[r] \in {"absent", "answered", "gone", "allowed", "sent"} -> pc[r]
    [] pc[r] \in {"reading", "ready"} -> "open"
    [] pc[r] = "held"    -> IF decision[r] = None THEN "held"
                            ELSE IF decision[r].verdict = "drop" THEN "refused" ELSE "allowed"
    [] pc[r] = "heldReply" -> IF decision[r] = None THEN "heldReply"
                              ELSE IF decision[r].verdict = "drop" THEN "refused" ELSE "released"

Stage == [r \in Req |-> StageOf(r)]

I == INSTANCE Interception WITH stage <- Stage

\* Interception is implemented: nothing held leaves before the user lets it,
\* nothing refused leaves at all, whoever disconnects or restarts meanwhile.
Interception == I!Spec

\* What is forwarded for an item is its own text, or, and only then, the text of an item
\* of an earlier proxy that had the same id: proxy_intercept compares ids, which every
\* proxy counts from 1, and the editor outlives the proxy.
EditorHoldsItem ==
  \A r \in Req : decision[r] # None =>
    LET t == decision[r].text IN
      \/ t.of = r /\ t.id = item[r]
      \/ home[t.of] # home[r] /\ t.id = item[r]

\* "Carrega os buffers editaveis quando chega um item novo": the text that is forwarded
\* for an item is its own, always.
EditorLoadsNewItem ==
  \A r \in Req : decision[r] # None => decision[r].text.of = r /\ decision[r].text.id = item[r]

\* A shot whose proxy was dropped, or could not start, frees the repeater: the
\* slot is free, or waits for the proxy that runs, again and again. (A generation that
\* is over does not come back.)
RepeaterReturns ==
  []<>(repeater.gen # None =>
         repeater.gen = handle /\ serve[handle] \notin {"failed", "ended"})
=============================================================================
