----------------------------- MODULE Proxy_proofs -----------------------------
(* The proxy implements Interception, and what is forwarded for an item is   *)
(* the item's own text, for any number of requests and starts. Its           *)
(* certification authority stays what it was at the first start that         *)
(* succeeded, for any number of keys generated.                              *)
EXTENDS Proxy, CaStore, TLAPS

Paused == {"held", "heldReply"}

-----------------------------------------------------------------------------
(* The inductive invariant.                                                *)

\* A request that has arrived belongs to a generation.
Arrived == \A r \in Req : home[r] = None <=> pc[r] = "absent"

\* A decision waits only where it is waited for.
Awaited == \A r \in Req : decision[r] # None => pc[r] \in Paused

\* The ids in use were given out.
Numbered ==
  /\ \A r \in Req : pc[r] \in Paused => item[r] \in Nat /\ item[r] < counter[home[r]]
  /\ \A g \in Gen : \A i \in 1..Len(pending[g]) :
       home[pending[g][i].of] = g /\ pending[g][i].id < counter[g]

\* No two items of a queue have the same id, and none that is decided on is left there.
Distinct ==
  \A g \in Gen : \A i, j \in 1..Len(pending[g]) : pending[g][i].id = pending[g][j].id => i = j

Resolved ==
  \A r \in Req : \A g \in Gen : \A i \in 1..Len(pending[g]) :
    home[r] = g /\ decision[r] # None => pending[g][i].id # item[r]

\* The editor holds an item of some generation; of its own queue, no other with its id.
EditorFilled ==
  editorId # None =>
    /\ editor \in Text /\ editor.id = editorId /\ home[editor.of] # None
    /\ editorId < counter[home[editor.of]]

EditorMatches ==
  \A g \in Gen : \A i \in 1..Len(pending[g]) :
    editorId # None /\ home[editor.of] = g /\ pending[g][i].id = editorId => pending[g][i] = editor

\* The text decided on is the item's, or that of an item of another generation.
TextsMatch ==
  \A r \in Req : decision[r] # None =>
    /\ decision[r].text.id = item[r]
    /\ \/ decision[r].text.of = r
       \/ home[decision[r].text.of] # home[r] /\ home[decision[r].text.of] # None

IInv ==
  /\ TypeOK /\ Arrived /\ Awaited /\ Numbered /\ Distinct /\ Resolved
  /\ EditorFilled /\ EditorMatches /\ TextsMatch

-----------------------------------------------------------------------------
(* Types.                                                                  *)

LEMMA InitTypes == Init => TypeOK
<1> SUFFICES ASSUME Init PROVE TypeOK
  OBVIOUS
<1> USE ConstantsAssumption
<1>1. pending \in [Gen -> Seq(Text)] /\ flows \in [Gen -> Seq(Req)]
  BY DEF Init
<1>2. counter \in [Gen -> Nat \ {0}]
  BY DEF Init
<1>3. /\ intercept \in [Gen -> BOOLEAN] /\ follow \in [Req -> BOOLEAN]
      /\ serve \in [Gen -> {"none", "starting", "listening", "failed", "ended"}]
      /\ pc \in [Req -> Alive \cup {"absent", "answered", "gone"}]
  BY DEF Init
<1> QED
  BY <1>1, <1>2, <1>3 DEF Init, TypeOK

\* A request that has arrived has a generation.
LEMMA HomeIsGen ==
  ASSUME TypeOK, Arrived, NEW r \in Req, pc[r] # "absent"
  PROVE  home[r] \in Gen
  BY DEF TypeOK, Arrived

\* Forget, Finish, Pause and Record keep the types of what they change.
LEMMA PauseTypes ==
  ASSUME TypeOK, NEW r \in Req, home[r] \in Gen, NEW k \in Kind, Pause(r, k)
  PROVE  /\ pending' \in [Gen -> Seq(Text)] /\ counter' \in [Gen -> Nat \ {0}]
         /\ item' \in [Req -> Nat \cup {None}] /\ decision' = decision
         /\ pc' \in [Req -> Alive \cup {"absent", "answered", "gone"}]
<1>1. [of |-> r, kind |-> k, id |-> counter[home[r]]] \in Text
  BY DEF TypeOK, Text
<1>2. pending' \in [Gen -> Seq(Text)]
  BY <1>1 DEF TypeOK, Pause
<1>3. counter' \in [Gen -> Nat \ {0}]
  BY DEF TypeOK, Pause
<1> QED
  BY <1>2, <1>3 DEF TypeOK, Pause, Alive

LEMMA ForgetTypes ==
  ASSUME TypeOK, NEW r \in Req, Forget(r)
  PROVE  /\ item' \in [Req -> Nat \cup {None}] /\ decision' \in [Req -> Done \cup {None}]
         /\ follow' \in [Req -> BOOLEAN]
  BY DEF TypeOK, Forget

LEMMA RecordTypes ==
  ASSUME TypeOK, NEW r \in Req, home[r] \in Gen, Record(r)
  PROVE  /\ flows' \in [Gen -> Seq(Req)] /\ counter' \in [Gen -> Nat \ {0}]
         /\ pc' \in [Req -> Alive \cup {"absent", "answered", "gone"}]
<1>1. flows[home[r]] \in Seq(Req)
  BY DEF TypeOK
<1>2. Append(flows[home[r]], r) \in Seq(Req) /\ Append(flows[home[r]], r) # <<>>
  BY <1>1
<1>3. Tail(Append(flows[home[r]], r)) \in Seq(Req)
  BY <1>2
<1>4. flows' \in [Gen -> Seq(Req)]
  BY <1>2, <1>3 DEF TypeOK, Record
<1>5. counter' \in [Gen -> Nat \ {0}]
  BY DEF TypeOK, Record
<1>6. pc' \in [Req -> Alive \cup {"absent", "answered", "gone"}]
  BY DEF TypeOK, Record
<1> QED
  BY <1>4, <1>5, <1>6

\* The steps of a task.
LEMMA TaskTypes ==
  ASSUME TypeOK, Arrived, NEW r \in Req, Task(r) \/ Reply(r) \/ Leave(r)
  PROVE  TypeOK'
<1>1. home[r] \in Gen
  BY HomeIsGen DEF Task, Read, TakeDecision, Send, TakeReplyDecision, Reply, Leave, Alive
<1>2. UNCHANGED <<gui, serve, intercept, home, repeater>>
  BY DEF Task, Read, TakeDecision, Send, TakeReplyDecision, Reply, Leave
<1> USE DEF gui
<1>3. CASE Finish(r)
  <2>1. pc' \in [Req -> Alive \cup {"absent", "answered", "gone"}]
    BY <1>3 DEF Finish, TypeOK
  <2> QED
    BY <1>2, <1>3, <2>1, ForgetTypes DEF Finish, TypeOK
<1>4. CASE Record(r) /\ UNCHANGED pending
  BY <1>1, <1>2, <1>4, ForgetTypes, RecordTypes DEF TypeOK, Record
<1>5. CASE \E k \in Kind : Pause(r, k) /\ UNCHANGED <<flows, follow>>
  BY <1>1, <1>2, <1>5, PauseTypes DEF TypeOK
<1>6. CASE Leave(r)
  <2>1. pc' \in [Req -> Alive \cup {"absent", "answered", "gone"}]
    BY <1>6 DEF Leave, TypeOK
  <2> QED
    BY <1>2, <1>6, <2>1, ForgetTypes DEF Leave, TypeOK
<1>7. CASE /\ \E to \in {"ready", "sent"} : pc' = [pc EXCEPT ![r] = to]
           /\ UNCHANGED <<counter, pending, flows, item, decision, follow>>
  BY <1>2, <1>7 DEF TypeOK, Alive
<1>8. CASE /\ pc' = [pc EXCEPT ![r] = "allowed"]
           /\ follow' = [follow EXCEPT ![r] = decision[r].verdict = "follow"]
           /\ item' = [item EXCEPT ![r] = None]
           /\ decision' = [decision EXCEPT ![r] = None]
           /\ UNCHANGED <<counter, pending, flows>>
  <2>1. follow' \in [Req -> BOOLEAN]
    BY <1>8, Zenon DEF TypeOK
  <2>2. /\ pc' \in [Req -> Alive \cup {"absent", "answered", "gone"}]
        /\ item' \in [Req -> Nat \cup {None}] /\ decision' \in [Req -> Done \cup {None}]
    BY <1>8 DEF TypeOK, Alive
  <2> QED
    BY <1>2, <1>8, <2>1, <2>2 DEF TypeOK
<1>9. CASE Read(r)
  BY <1>3, <1>5, <1>7, <1>9 DEF Read, Kind
<1>10. CASE TakeDecision(r)
  BY <1>3, <1>8, <1>10 DEF TakeDecision
<1>11. CASE Send(r)
  BY <1>3, <1>7, <1>11 DEF Send
<1>12. CASE Reply(r)
  BY <1>3, <1>4, <1>5, <1>12 DEF Reply, Kind
<1>13. CASE TakeReplyDecision(r)
  BY <1>3, <1>4, <1>13 DEF TakeReplyDecision
<1> QED
  BY <1>6, <1>9, <1>10, <1>11, <1>12, <1>13 DEF Task

\* One frame of the panel.
LEMMA FrameTypes ==
  ASSUME TypeOK, EditorFilled, NEW do \in Outcome, Frame(do)
  PROVE  TypeOK'
<1> DEFINE view == Head(pending[handle])
<1>1. handle \in Gen /\ pending[handle] \in Seq(Text) /\ pending[handle] # <<>>
  BY DEF Frame, TypeOK
<1>2. view \in Text /\ Tail(pending[handle]) \in Seq(Text)
  BY <1>1
<1>3. view.of \in Req /\ view.id \in Nat
  BY <1>2 DEF Text
<1>4. editor' \in Text \cup {None} /\ editor' = Loaded(view)
  BY <1>2 DEF Frame, Loaded, TypeOK
<1>5. editorId' \in Nat \cup {None}
  BY <1>3 DEF Frame
<1>6. Loaded(view) \in Text
  BY <1>2, <1>3, ConstantsAssumption DEF Loaded, TypeOK, EditorFilled
<1>7. pending' \in [Gen -> Seq(Text)]
  BY <1>1, <1>2 DEF Frame, TypeOK
<1>8. decision' \in [Req -> Done \cup {None}]
  <2>1. CASE do = "look"
    BY <2>1 DEF Frame, TypeOK
  <2>2. CASE do # "look"
    <3>1. [verdict |-> do, text |-> Loaded(view)] \in Done
      BY <1>6, <2>2 DEF Done, Outcome
    <3> QED
      BY <1>3, <2>2, <3>1 DEF Frame, TypeOK
  <2> QED
    BY <2>1, <2>2
<1> QED
  BY <1>4, <1>5, <1>7, <1>8 DEF Frame, TypeOK

\* The steps of the GUI, of the accept loop and of the repeater.
Quiet ==
  \/ \E g \in Gen : Start(g) \/ Bind(g) \/ BindFails(g)
  \/ Stop \/ Toggle \/ ClearHistory \/ Shoot \/ TakeShot \/ AnswerShot \/ PollShot

LEMMA QuietTypes ==
  ASSUME TypeOK, Quiet
  PROVE  TypeOK'
<1> USE DEF gui, task
<1>1. CASE \E g \in Gen : Start(g) \/ Bind(g)
  <2>1. PICK g \in Gen : Start(g) \/ Bind(g)
    BY <1>1
  <2>2. CASE Start(g)
    <3>1. handle' \in Gen \cup {None} /\ UNCHANGED <<intercept, counter, pending, flows, task,
                                                    editorId, editor, repeater>>
      BY <2>2 DEF Start
    <3>2. serve' \in [Gen -> {"none", "starting", "listening", "failed", "ended"}]
      BY <2>2 DEF Start, TypeOK
    <3> QED
      BY <3>1, <3>2 DEF TypeOK
  <2>3. CASE Bind(g)
    <3>1. UNCHANGED <<handle, intercept, counter, pending, flows, task, editorId, editor,
                      repeater>>
      BY <2>3 DEF Bind
    <3>2. serve' \in [Gen -> {"none", "starting", "listening", "failed", "ended"}]
      BY <2>3 DEF Bind, TypeOK
    <3> QED
      BY <3>1, <3>2 DEF TypeOK
  <2> QED
    BY <2>1, <2>2, <2>3
<1>2. CASE \E g \in Gen : BindFails(g)
  <2>1. PICK g \in Gen : BindFails(g)
    BY <1>2
  <2>2. repeater' \in [state : {"idle", "queued", "flying", "closed", "done"}, gen : Gen \cup {None}]
    BY <2>1 DEF BindFails, CloseRepeater, TypeOK
  <2>3. serve' \in [Gen -> {"none", "starting", "listening", "failed", "ended"}]
    BY <2>1 DEF BindFails, TypeOK
  <2>4. UNCHANGED <<handle, intercept, counter, pending, flows, task, editorId, editor>>
    BY <2>1 DEF BindFails
  <2> QED
    BY <2>2, <2>3, <2>4 DEF TypeOK
<1>3. CASE Stop
  BY <1>3 DEF Stop, TypeOK
<1>4. CASE Toggle
  <2>1. intercept' \in [Gen -> BOOLEAN]
    BY <1>4, Zenon DEF Toggle, TypeOK
  <2> QED
    BY <1>4, <2>1 DEF Toggle, TypeOK
<1>5. CASE ClearHistory
  BY <1>5 DEF ClearHistory, TypeOK
<1>6. CASE Shoot
  BY <1>6 DEF Shoot, TypeOK
<1>7. CASE TakeShot \/ AnswerShot \/ PollShot
  <2>1. repeater' \in [state : {"idle", "queued", "flying", "closed", "done"}, gen : Gen \cup {None}]
    <3>1. CASE \E to \in {"flying", "done"} : repeater' = [repeater EXCEPT !.state = to]
      BY <3>1 DEF TypeOK
    <3>2. CASE repeater' = [state |-> "idle", gen |-> None]
      BY <3>2
    <3> QED
      BY <1>7, <3>1, <3>2 DEF TakeShot, AnswerShot, PollShot
  <2> QED
    BY <1>7, <2>1 DEF TakeShot, AnswerShot, PollShot, TypeOK
<1> QED
  BY <1>1, <1>2, <1>3, <1>4, <1>5, <1>6, <1>7 DEF Quiet

LEMMA ShutdownTypes ==
  ASSUME TypeOK, NEW g \in Gen, Shutdown(g)
  PROVE  TypeOK'
<1> USE DEF gui
<1>1. serve' \in [Gen -> {"none", "starting", "listening", "failed", "ended"}]
  BY DEF Shutdown, TypeOK
<1>2. /\ pc' \in [Req -> Alive \cup {"absent", "answered", "gone"}]
      /\ item' \in [Req -> Nat \cup {None}] /\ decision' \in [Req -> Done \cup {None}]
  BY DEF Shutdown, TypeOK
<1>3. follow' \in [Req -> BOOLEAN]
  BY DEF Shutdown, TypeOK
<1>4. repeater' \in [state : {"idle", "queued", "flying", "closed", "done"}, gen : Gen \cup {None}]
  BY DEF Shutdown, CloseRepeater, TypeOK
<1> QED
  BY <1>1, <1>2, <1>3, <1>4 DEF Shutdown, TypeOK

LEMMA ArriveTypes ==
  ASSUME TypeOK, NEW r \in Req, Arrive(r)
  PROVE  TypeOK'
  BY DEF Arrive, TypeOK, gui, Alive

-----------------------------------------------------------------------------
(* Steps that push nothing: a request goes on, or ends with its decision.  *)

Moving ==
  /\ UNCHANGED <<pending, home, editorId, editor>>
  /\ \A g \in Gen : counter'[g] >= counter[g]
  /\ \A r \in Req :
       /\ pc'[r] = "absent" <=> pc[r] = "absent"
       /\ pc'[r] \in Paused => pc[r] \in Paused /\ item'[r] = item[r]
       /\ decision'[r] = None \/ (decision'[r] = decision[r] /\ pc'[r] = pc[r])

LEMMA MovingKeeps ==
  ASSUME IInv, Moving, TypeOK'
  PROVE  IInv'
<1> USE DEF IInv, Moving
<1>1. \A r \in Req : decision'[r] # None => decision'[r] = decision[r] /\ item'[r] = item[r]
  BY DEF Awaited
<1>2. Arrived' /\ Awaited'
  BY DEF Arrived, Awaited
<1>3. Numbered'
  <2>1. ASSUME NEW r \in Req, pc'[r] \in Paused
        PROVE  item'[r] \in Nat /\ item'[r] < counter'[home'[r]]
    <3>1. home[r] \in Gen
      BY <2>1, HomeIsGen DEF Paused
    <3>2. item[r] \in Nat /\ item[r] < counter[home[r]] /\ item'[r] = item[r]
      BY <2>1 DEF Numbered
    <3> QED
      BY <3>1, <3>2 DEF TypeOK
  <2>2. ASSUME NEW g \in Gen, NEW i \in 1..Len(pending[g])
        PROVE  home[pending[g][i].of] = g /\ pending[g][i].id < counter'[g]
    <3>1. pending[g] \in Seq(Text)
      BY DEF TypeOK
    <3>2. pending[g][i] \in Text
      BY <3>1
    <3>3. pending[g][i].id \in Nat /\ counter[g] \in Nat /\ counter'[g] \in Nat
      BY <3>2 DEF Text, TypeOK
    <3>4. home[pending[g][i].of] = g /\ pending[g][i].id < counter[g]
      BY DEF Numbered
    <3> QED
      BY <3>3, <3>4
  <2> QED
    BY <2>1, <2>2 DEF Numbered
<1>4. Distinct' /\ Resolved'
  BY <1>1 DEF Distinct, Resolved
<1>5. EditorFilled'
  <2> SUFFICES ASSUME editorId # None PROVE editorId < counter'[home[editor.of]]
    BY DEF EditorFilled
  <2>1. editor \in Text /\ home[editor.of] \in Gen /\ editorId \in Nat
    BY DEF EditorFilled, TypeOK, Text
  <2> QED
    BY <2>1 DEF EditorFilled, TypeOK
<1>6. EditorMatches' /\ TextsMatch'
  BY <1>1 DEF EditorMatches, TextsMatch
<1> QED
  BY <1>2, <1>3, <1>4, <1>5, <1>6

LEMMA QuietMoves ==
  ASSUME TypeOK, Quiet
  PROVE  Moving /\ UNCHANGED <<pc, decision>>
<1>1. UNCHANGED <<pending, task, counter, editorId, editor>>
  BY DEF Quiet, Start, Stop, Bind, BindFails, Toggle, ClearHistory, Shoot, TakeShot, AnswerShot,
     PollShot, gui
<1> QED
  BY <1>1 DEF Moving, task, TypeOK

LEMMA ShutdownMoves ==
  ASSUME TypeOK, NEW g \in Gen, Shutdown(g)
  PROVE  Moving
  BY DEF Shutdown, Moving, TypeOK, gui, Alive, Paused

\* Every step of a task but those that pause.
LEMMA TaskMoves ==
  ASSUME TypeOK, Arrived, Awaited, NEW r \in Req, Task(r) \/ Reply(r) \/ Leave(r),
         ~\E k \in Kind : Pause(r, k)
  PROVE  Moving
<1>1. pc[r] # "absent" /\ home[r] \in Gen
  BY HomeIsGen DEF Task, Read, TakeDecision, Send, TakeReplyDecision, Reply, Leave, Alive
<1>2. /\ UNCHANGED <<pending, home, editorId, editor>>
      /\ pc' = [pc EXCEPT ![r] = pc'[r]] /\ pc'[r] \notin Paused \cup {"absent"}
      /\ counter' = counter \/ counter' = [counter EXCEPT ![home[r]] = @ + 1]
  BY <1>1 DEF Task, Read, TakeDecision, Send, TakeReplyDecision, Reply, Leave, Finish, Record, Kind,
     Paused, gui, TypeOK
<1>3. /\ \A q \in Req \ {r} : decision'[q] = decision[q] /\ item'[q] = item[q]
      /\ decision'[r] = None
  BY DEF Awaited, Task, Read, TakeDecision, Send, TakeReplyDecision, Reply, Leave, Finish, Record, Forget, Kind,
     Paused, TypeOK
<1>4. \A q \in Req \ {r} : pc'[q] = pc[q]
  BY <1>2 DEF TypeOK
<1>5. ASSUME NEW g \in Gen
      PROVE  counter'[g] >= counter[g]
  <2>1. counter[g] \in Nat
    BY DEF TypeOK
  <2>2. CASE counter' = counter
    BY <2>1, <2>2
  <2>3. CASE counter' = [counter EXCEPT ![home[r]] = @ + 1]
    <3>1. counter'[g] = counter[g] \/ counter'[g] = counter[g] + 1
      BY <2>3 DEF TypeOK
    <3> QED
      BY <2>1, <3>1
  <2> QED
    BY <1>2, <2>2, <2>3
<1> QED
  BY <1>1, <1>2, <1>3, <1>4, <1>5 DEF Moving

-----------------------------------------------------------------------------
(* The steps that push or resolve an item, and an arrival.                 *)

\* An item has joined a queue.
LEMMA Pushed ==
  ASSUME TypeOK, NEW r \in Req, home[r] \in Gen, NEW k \in Kind, Pause(r, k)
  PROVE  LET h == home[r]
             n == Len(pending[h])
             e == [of |-> r, kind |-> k, id |-> counter[h]]
         IN /\ e \in Text /\ n \in Nat
            /\ Len(pending'[h]) = n + 1 /\ pending'[h][n + 1] = e
            /\ \A i \in 1..n : pending'[h][i] = pending[h][i] /\ pending[h][i] \in Text
            /\ \A g \in Gen \ {h} : pending'[g] = pending[g] /\ counter'[g] = counter[g]
            /\ counter'[h] = counter[h] + 1 /\ counter[h] \in Nat
<1> DEFINE h == home[r]
           n == Len(pending[h])
           e == [of |-> r, kind |-> k, id |-> counter[h]]
<1>1. e \in Text /\ counter[h] \in Nat
  BY DEF TypeOK, Text
<1>2. pending[h] \in Seq(Text)
  BY DEF TypeOK
<1>3. pending'[h] = Append(pending[h], e)
  BY DEF TypeOK, Pause
<1>4. \A g \in Gen \ {h} : pending'[g] = pending[g] /\ counter'[g] = counter[g]
  BY DEF TypeOK, Pause
<1>5. counter'[h] = counter[h] + 1
  BY DEF TypeOK, Pause
<1>6. /\ n \in Nat /\ Len(pending'[h]) = n + 1 /\ pending'[h][n + 1] = e
      /\ \A i \in 1..n : pending'[h][i] = pending[h][i] /\ pending[h][i] \in Text
  BY <1>1, <1>2, <1>3
<1> QED
  BY <1>1, <1>4, <1>5, <1>6

LEMMA PauseKeeps ==
  ASSUME IInv, TypeOK', NEW r \in Req, NEW k \in Kind, Pause(r, k),
         pc[r] \notin Paused \cup {"absent"}, UNCHANGED <<home, editorId, editor>>
  PROVE  IInv'
<1> DEFINE h == home[r]
           n == Len(pending[h])
           e == [of |-> r, kind |-> k, id |-> counter[h]]
<1> USE DEF IInv
<1>1. h \in Gen
  BY HomeIsGen
<1>2. /\ e \in Text /\ n \in Nat
      /\ Len(pending'[h]) = n + 1 /\ pending'[h][n + 1] = e
      /\ \A i \in 1..n : pending'[h][i] = pending[h][i] /\ pending[h][i] \in Text
      /\ \A g \in Gen \ {h} : pending'[g] = pending[g] /\ counter'[g] = counter[g]
      /\ counter'[h] = counter[h] + 1 /\ counter[h] \in Nat
  BY <1>1, Pushed
<1>3. /\ pc'[r] \in Paused /\ item'[r] = counter[h] /\ decision' = decision
      /\ \A q \in Req \ {r} : pc'[q] = pc[q] /\ item'[q] = item[q]
  BY DEF Pause, TypeOK, Paused
<1>4. decision[r] = None
  BY DEF Awaited
<1>5. Arrived' /\ Awaited'
  BY <1>3, <1>4 DEF Arrived, Awaited, Paused
<1>6. \A i \in 1..n : home[pending[h][i].of] = h /\ pending[h][i].id < counter[h]
  BY <1>1 DEF Numbered
<1>7. Numbered'
  <2>1. ASSUME NEW q \in Req, pc'[q] \in Paused
        PROVE  item'[q] \in Nat /\ item'[q] < counter'[home[q]]
    <3>1. CASE q = r
      BY <1>2, <1>3, <3>1
    <3>2. CASE q # r
      <4>1. pc[q] \in Paused /\ item'[q] = item[q] /\ home[q] \in Gen
        BY <1>3, <2>1, <3>2, HomeIsGen DEF Paused
      <4>2. item[q] \in Nat /\ item[q] < counter[home[q]]
        BY <4>1 DEF Numbered
      <4>3. counter'[home[q]] = counter[home[q]] \/ counter'[home[q]] = counter[home[q]] + 1
        BY <1>2, <4>1
      <4>4. counter[home[q]] \in Nat
        BY <4>1 DEF TypeOK
      <4> QED
        BY <4>1, <4>2, <4>3, <4>4
    <3> QED
      BY <3>1, <3>2
  <2>2. ASSUME NEW g \in Gen, NEW i \in 1..Len(pending'[g])
        PROVE  home[pending'[g][i].of] = g /\ pending'[g][i].id < counter'[g]
    <3>1. CASE g # h
      BY <1>2, <3>1 DEF Numbered
    <3>2. CASE g = h /\ i = n + 1
      BY <1>2, <3>2
    <3>3. CASE g = h /\ i \in 1..n
      <4>1. /\ pending[h][i].id \in Nat /\ pending'[h][i] = pending[h][i]
            /\ counter[h] \in Nat /\ counter'[h] = counter[h] + 1
        BY <1>2, <3>3 DEF Text
      <4>2. home[pending[h][i].of] = h /\ pending[h][i].id < counter[h]
        BY <1>6, <3>3
      <4>3. pending[h][i].id < counter'[h]
        BY <4>1, <4>2
      <4> QED
        BY <3>3, <4>1, <4>2, <4>3
    <3> QED
      BY <1>2, <3>1, <3>2, <3>3
  <2> QED
    BY <2>1, <2>2 DEF Numbered
<1>8. \A i \in 1..n : pending[h][i].id # counter[h]
  BY <1>2, <1>6 DEF Text
<1>9. Distinct'
  <2> SUFFICES ASSUME NEW g \in Gen, NEW i \in 1..Len(pending'[g]), NEW j \in 1..Len(pending'[g]),
                      pending'[g][i].id = pending'[g][j].id
               PROVE  i = j
    BY DEF Distinct
  <2>1. CASE g # h
    BY <1>2, <2>1 DEF Distinct
  <2>2. CASE g = h
    <3>1. i \in 1..n \/ i = n + 1
      BY <1>2, <2>2
    <3>2. j \in 1..n \/ j = n + 1
      BY <1>2, <2>2
    <3>3. CASE i \in 1..n /\ j \in 1..n
      <4>1. pending'[h][i] = pending[h][i] /\ pending'[h][j] = pending[h][j]
        BY <1>2, <3>3
      <4>2. pending[h][i].id = pending[h][j].id
        BY <2>2, <4>1
      <4> QED
        BY <1>1, <3>3, <4>2 DEF Distinct
    <3>4. CASE i = n + 1 /\ j \in 1..n
      <4>1. pending'[h][i] = e /\ e.id = counter[h]
        BY <1>2, <3>4
      <4>2. pending'[h][j] = pending[h][j]
        BY <1>2, <3>4
      <4> QED
        BY <1>8, <2>2, <3>4, <4>1, <4>2
    <3>5. CASE i \in 1..n /\ j = n + 1
      <4>1. pending'[h][j] = e /\ e.id = counter[h]
        BY <1>2, <3>5
      <4>2. pending'[h][i] = pending[h][i]
        BY <1>2, <3>5
      <4> QED
        BY <1>8, <2>2, <3>5, <4>1, <4>2
    <3> QED
      BY <3>1, <3>2, <3>3, <3>4, <3>5
  <2> QED
    BY <2>1, <2>2
<1>10. Resolved'
  <2> SUFFICES ASSUME NEW q \in Req, NEW g \in Gen, NEW i \in 1..Len(pending'[g]),
                      home[q] = g, decision[q] # None
               PROVE  pending'[g][i].id # item'[q]
    BY <1>3 DEF Resolved
  <2>1. q # r /\ item'[q] = item[q] /\ pc[q] \in Paused
    BY <1>3, <1>4 DEF Awaited
  <2>2. CASE g # h
    <3>1. pending'[g] = pending[g]
      BY <1>2, <2>2
    <3> QED
      BY <2>1, <3>1 DEF Resolved
  <2>3. CASE g = h /\ i \in 1..n
    <3>1. pending'[g][i] = pending[g][i] /\ i \in 1..Len(pending[g])
      BY <1>2, <2>3
    <3> QED
      BY <2>1, <3>1 DEF Resolved
  <2>4. CASE g = h /\ i = n + 1
    <3>1. item[q] \in Nat /\ item[q] < counter[h]
      BY <2>1, <2>4 DEF Numbered
    <3> QED
      BY <1>2, <2>1, <2>4, <3>1
  <2> QED
    BY <1>2, <2>2, <2>3, <2>4
<1>11. EditorFilled'
  <2> SUFFICES ASSUME editorId # None PROVE editorId < counter'[home[editor.of]]
    BY DEF EditorFilled
  <2>1. editor \in Text /\ home[editor.of] \in Gen /\ editorId \in Nat
    BY DEF EditorFilled, TypeOK, Text
  <2>2. editorId < counter[home[editor.of]] /\ counter[home[editor.of]] \in Nat
    BY <2>1 DEF EditorFilled, TypeOK
  <2>3. counter'[home[editor.of]] \in {counter[home[editor.of]], counter[home[editor.of]] + 1}
    BY <1>2, <2>1
  <2> QED
    BY <2>1, <2>2, <2>3
<1>12. EditorMatches'
  <2> SUFFICES ASSUME NEW g \in Gen, NEW i \in 1..Len(pending'[g]),
                      editorId # None, home[editor.of] = g, pending'[g][i].id = editorId
               PROVE  pending'[g][i] = editor
    BY DEF EditorMatches
  <2>1. editorId \in Nat /\ editorId < counter[g]
    BY DEF EditorFilled, TypeOK
  <2>2. CASE g # h
    BY <1>2, <2>2 DEF EditorMatches
  <2>3. CASE g = h /\ i \in 1..n
    BY <1>1, <1>2, <2>3 DEF EditorMatches
  <2>4. CASE g = h /\ i = n + 1
    BY <1>2, <2>1, <2>4
  <2> QED
    BY <1>2, <2>2, <2>3, <2>4
<1>13. TextsMatch'
  BY <1>3, <1>4 DEF TextsMatch
<1> QED
  BY <1>5, <1>7, <1>9, <1>10, <1>11, <1>12, <1>13

LEMMA ArriveKeeps ==
  ASSUME IInv, TypeOK', NEW r \in Req, Arrive(r)
  PROVE  IInv'
<1> USE DEF IInv
<1>1. /\ UNCHANGED <<pending, counter, item, decision, editorId, editor>>
      /\ home[r] = None /\ home'[r] \in Gen /\ decision[r] = None
      /\ pc'[r] \notin Paused \cup {"absent"}
      /\ \A q \in Req \ {r} : home'[q] = home[q] /\ pc'[q] = pc[q]
  <2>1. UNCHANGED <<pending, counter, item, decision, editorId, editor>>
    BY DEF Arrive, gui
  <2>2. pc[r] = "absent"
    BY DEF Arrive
  <2>3. home[r] = None
    BY <2>2 DEF Arrived
  <2>4. decision[r] = None
    BY <2>2 DEF Awaited, Paused
  <2>5. PICK g \in Gen : home' = [home EXCEPT ![r] = g]
    BY DEF Arrive
  <2>6. home'[r] = g /\ \A q \in Req \ {r} : home'[q] = home[q]
    BY <2>5 DEF TypeOK
  <2>7. pc' = [pc EXCEPT ![r] = "reading"]
    BY DEF Arrive
  <2>8. pc'[r] = "reading" /\ \A q \in Req \ {r} : pc'[q] = pc[q]
    BY <2>7 DEF TypeOK
  <2>9. pc'[r] \notin Paused \cup {"absent"}
    BY <2>8 DEF Paused
  <2> QED
    BY <2>1, <2>3, <2>4, <2>6, <2>8, <2>9
<1>2. None \notin Gen
  BY ConstantsAssumption DEF Gen
<1>3. Arrived' /\ Awaited'
  BY <1>1, <1>2 DEF Arrived, Awaited
<1>4. ASSUME NEW g \in Gen, NEW i \in 1..Len(pending[g])
      PROVE  pending[g][i].of # r /\ home'[pending[g][i].of] = g
  <2>1. pending[g] \in Seq(Text)
    BY DEF TypeOK
  <2>2. pending[g][i] \in Text
    BY <2>1
  <2>3. pending[g][i].of \in Req /\ home[pending[g][i].of] = g
    BY <2>2 DEF Numbered, Text
  <2>4. pending[g][i].of # r
    BY <1>1, <1>2, <2>3
  <2> QED
    BY <1>1, <2>3, <2>4
<1>5. Numbered'
  <2>1. ASSUME NEW q \in Req, pc'[q] \in Paused
        PROVE  item'[q] \in Nat /\ item'[q] < counter'[home'[q]]
    BY <1>1, <2>1 DEF Numbered
  <2>2. ASSUME NEW g \in Gen, NEW i \in 1..Len(pending[g])
        PROVE  home'[pending[g][i].of] = g /\ pending[g][i].id < counter[g]
    BY <1>4 DEF Numbered
  <2> QED
    BY <1>1, <2>1, <2>2 DEF Numbered
<1>6. Distinct'
  BY <1>1 DEF Distinct
<1>7. Resolved'
  BY <1>1 DEF Resolved
<1>8. editorId # None => editor.of # r /\ editor.of \in Req /\ home'[editor.of] = home[editor.of]
  <2> SUFFICES ASSUME editorId # None
               PROVE  editor.of # r /\ editor.of \in Req /\ home'[editor.of] = home[editor.of]
    OBVIOUS
  <2>1. editor.of \in Req /\ home[editor.of] # None
    BY DEF EditorFilled, TypeOK, Text
  <2> QED
    BY <1>1, <2>1
<1>9. EditorFilled'
  BY <1>1, <1>8 DEF EditorFilled
<1>10. EditorMatches'
  BY <1>1, <1>8 DEF EditorMatches
<1>11. TextsMatch'
  <2> SUFFICES ASSUME NEW q \in Req, decision[q] # None
               PROVE  /\ decision[q].text.id = item[q]
                      /\ \/ decision[q].text.of = q
                         \/ home'[decision[q].text.of] # home'[q] /\ home'[decision[q].text.of] # None
    BY <1>1 DEF TextsMatch
  <2>1. q # r /\ home'[q] = home[q]
    BY <1>1
  <2>2. decision[q].text.of \in Req
    BY DEF TypeOK, Done, Text
  <2>3. CASE decision[q].text.of = q
    BY <2>3 DEF TextsMatch
  <2>4. CASE decision[q].text.of # q
    <3>1. home[decision[q].text.of] # home[q] /\ home[decision[q].text.of] # None
      BY <2>4 DEF TextsMatch
    <3>2. home'[decision[q].text.of] = home[decision[q].text.of]
      BY <1>1, <2>2, <3>1
    <3> QED
      BY <2>1, <3>1, <3>2 DEF TextsMatch
  <2> QED
    BY <2>3, <2>4
<1> QED
  BY <1>3, <1>5, <1>6, <1>7, <1>9, <1>10, <1>11

\* A frame: the first item is shown, and maybe decided on.
LEMMA FrameKeeps ==
  ASSUME IInv, TypeOK', NEW do \in Outcome, Frame(do)
  PROVE  IInv'
<1> DEFINE g    == handle
           view == Head(pending[g])
           r    == view.of
           text == Loaded(view)
<1> USE DEF IInv
<1>1. /\ g \in Gen /\ pending[g] \in Seq(Text) /\ pending[g] # <<>>
      /\ UNCHANGED <<counter, pc, home, item>> /\ editor' = text
  <2>1. g # None /\ pending[g] # <<>>
    BY DEF Frame
  <2>2. g \in Gen /\ pending[g] \in Seq(Text)
    BY <2>1 DEF TypeOK
  <2>3. UNCHANGED <<counter, pc, home, item>> /\ editor' = text
    BY DEF Frame
  <2> QED
    BY <2>1, <2>2, <2>3
<1>2. /\ 1 \in 1..Len(pending[g]) /\ view = pending[g][1] /\ view \in Text
      /\ r \in Req /\ view.id \in Nat /\ home[r] = g
  <2>1. 1 \in 1..Len(pending[g]) /\ view = pending[g][1]
    BY <1>1
  <2>3. view \in Text
    BY <1>1, <2>1
  <2>2. home[pending[g][1].of] = g
    BY <1>1, <2>1 DEF Numbered
  <2> QED
    BY <2>1, <2>2, <2>3 DEF Text
<1>3. g # None /\ view.id < counter[g] /\ counter[g] \in Nat
  <2>1. g # None
    BY DEF Frame
  <2>2. counter[g] \in Nat
    BY <1>1 DEF TypeOK
  <2>3. view.id < counter[g]
    BY <1>1, <1>2 DEF Numbered
  <2> QED
    BY <2>1, <2>2, <2>3
<1>4. /\ text.id = view.id /\ text \in Text
      /\ text = view \/ (home[text.of] # None /\ home[text.of] # g)
  <2>1. CASE editorId # view.id
    BY <1>2, <2>1 DEF Loaded
  <2>2. CASE editorId = view.id
    <3>1. editorId # None /\ text = editor
      BY <1>2, <2>2, ConstantsAssumption DEF Loaded
    <3>2. editor \in Text /\ editor.id = view.id /\ home[editor.of] # None
      BY <2>2, <3>1 DEF EditorFilled, TypeOK
    <3>3. home[editor.of] = g => view = editor
      BY <1>1, <1>2, <2>2, <3>1 DEF EditorMatches
    <3> QED
      BY <3>1, <3>2, <3>3
  <2> QED
    BY <2>1, <2>2
<1>5. Arrived'
  BY <1>1 DEF Arrived
<1>6. CASE do = "look"
  <2>1. UNCHANGED <<pending, decision>> /\ editorId' = view.id
    BY <1>6 DEF Frame
  <2>2. Awaited' /\ Numbered' /\ Distinct' /\ Resolved' /\ TextsMatch'
    BY <1>1, <2>1 DEF Awaited, Numbered, Distinct, Resolved, TextsMatch
  <2>3. EditorFilled'
    <3>1. view.id < counter[home[text.of]]
      <4>1. CASE text = view
        BY <1>2, <1>3, <4>1
      <4>2. CASE text # view
        <5>1. editorId = view.id /\ text = editor /\ editorId # None
          BY <1>2, <4>2, ConstantsAssumption DEF Loaded
        <5> QED
          BY <5>1 DEF EditorFilled
      <4> QED
        BY <4>1, <4>2
    <3>2. home[text.of] # None
      BY <1>2, <1>3, <1>4
    <3> QED
      BY <1>1, <1>4, <2>1, <3>1, <3>2 DEF EditorFilled
  <2>4. EditorMatches'
    <3> SUFFICES ASSUME NEW f \in Gen, NEW i \in 1..Len(pending[f]),
                        home[text.of] = f, pending[f][i].id = view.id
                 PROVE  pending[f][i] = text
      BY <1>1, <2>1 DEF EditorMatches
    <3>1. CASE text = view
      <4>1. f = g
        BY <1>2, <3>1
      <4> QED
        BY <1>2, <3>1, <4>1 DEF Distinct
    <3>2. CASE text # view
      <4>1. editorId = view.id /\ text = editor /\ editorId # None
        BY <1>2, <3>2, ConstantsAssumption DEF Loaded
      <4> QED
        BY <4>1 DEF EditorMatches
    <3> QED
      BY <3>1, <3>2
  <2> QED
    BY <1>5, <2>2, <2>3, <2>4
<1>7. CASE do # "look"
  <2>1. /\ editorId' = None /\ pending' = [pending EXCEPT ![g] = Tail(@)]
        /\ decision' = IF item[r] = view.id /\ pc[r] \in Paused
                       THEN [decision EXCEPT ![r] = [verdict |-> do, text |-> text]]
                       ELSE decision
    BY <1>7 DEF Frame, Paused
  <2>2. ASSUME NEW f \in Gen, NEW i \in 1..Len(pending'[f])
        PROVE  \E j \in 1..Len(pending[f]) :
                 pending'[f][i] = pending[f][j] /\ (f = g => j = i + 1) /\ (f # g => j = i)
    <3>1. CASE f # g
      <4>1. pending'[f] = pending[f]
        BY <2>1, <3>1 DEF TypeOK
      <4> QED
        BY <3>1, <4>1
    <3>2. CASE f = g
      <4>1. pending'[f] = Tail(pending[g])
        BY <1>1, <2>1, <3>2 DEF TypeOK
      <4>2. i + 1 \in 1..Len(pending[g]) /\ Tail(pending[g])[i] = pending[g][i + 1]
        BY <1>1, <3>2, <4>1
      <4> QED
        BY <3>2, <4>1, <4>2
    <3> QED
      BY <3>1, <3>2
  <2>3. \A q \in Req : decision'[q] = decision[q]
                       \/ (q = r /\ item[r] = view.id /\ pc[r] \in Paused
                           /\ decision'[q] = [verdict |-> do, text |-> text])
    BY <1>2, <2>1 DEF TypeOK
  <2>4. Awaited'
    BY <1>1, <2>3 DEF Awaited
  <2>5. Numbered'
    <3>1. \A f \in Gen : \A i \in 1..Len(pending'[f]) :
            home[pending'[f][i].of] = f /\ pending'[f][i].id < counter[f]
      BY <2>2 DEF Numbered
    <3> QED
      BY <1>1, <3>1 DEF Numbered
  <2>6. Distinct'
    <3> SUFFICES ASSUME NEW f \in Gen, NEW i \in 1..Len(pending'[f]), NEW j \in 1..Len(pending'[f]),
                        pending'[f][i].id = pending'[f][j].id
                 PROVE  i = j
      BY DEF Distinct
    <3>1. PICK a \in 1..Len(pending[f]) :
            pending'[f][i] = pending[f][a] /\ (f = g => a = i + 1) /\ (f # g => a = i)
      BY <2>2
    <3>2. PICK b \in 1..Len(pending[f]) :
            pending'[f][j] = pending[f][b] /\ (f = g => b = j + 1) /\ (f # g => b = j)
      BY <2>2
    <3>3. a = b
      BY <3>1, <3>2 DEF Distinct
    <3> QED
      BY <3>1, <3>2, <3>3
  <2>7. Resolved'
    <3> SUFFICES ASSUME NEW q \in Req, NEW f \in Gen, NEW i \in 1..Len(pending'[f]),
                        home[q] = f, decision'[q] # None
                 PROVE  pending'[f][i].id # item[q]
      BY <1>1 DEF Resolved
    <3>1. PICK a \in 1..Len(pending[f]) :
            pending'[f][i] = pending[f][a] /\ (f = g => a = i + 1) /\ (f # g => a = i)
      BY <2>2
    <3>2. CASE decision'[q] = decision[q]
      BY <3>1, <3>2 DEF Resolved
    <3>3. CASE q = r /\ item[r] = view.id
      <4>1. f = g /\ a # 1
        BY <1>2, <3>1, <3>3
      <4>2. pending[g][a].id # view.id
        BY <1>1, <1>2, <3>1, <4>1 DEF Distinct
      <4> QED
        BY <3>1, <3>3, <4>1, <4>2
    <3> QED
      BY <2>3, <3>2, <3>3
  <2>8. EditorFilled' /\ EditorMatches'
    BY <2>1 DEF EditorFilled, EditorMatches
  <2>9. TextsMatch'
    <3> SUFFICES ASSUME NEW q \in Req, decision'[q] # None
                 PROVE  /\ decision'[q].text.id = item[q]
                        /\ \/ decision'[q].text.of = q
                           \/ /\ home[decision'[q].text.of] # home[q]
                              /\ home[decision'[q].text.of] # None
      BY <1>1 DEF TextsMatch
    <3>1. CASE decision'[q] = decision[q]
      BY <3>1 DEF TextsMatch
    <3>2. CASE q = r /\ item[r] = view.id /\ decision'[q] = [verdict |-> do, text |-> text]
      BY <1>2, <1>4, <3>2
    <3> QED
      BY <2>3, <3>1, <3>2
  <2> QED
    BY <1>5, <2>4, <2>5, <2>6, <2>7, <2>8, <2>9
<1> QED
  BY <1>6, <1>7

LEMMA InitIInv == Init => IInv
<1> SUFFICES ASSUME Init PROVE IInv
  OBVIOUS
<1>1. TypeOK
  BY InitTypes
<1>2. \A g \in Gen : Len(pending[g]) = 0
  BY DEF Init
<1>3. Numbered /\ Distinct /\ Resolved /\ EditorMatches
  BY <1>2 DEF Init, Numbered, Distinct, Resolved, EditorMatches, Paused
<1> QED
  BY <1>1, <1>3 DEF Init, IInv, Arrived, Awaited, EditorFilled, TextsMatch

\* Whatever is not a pause, a frame or an arrival pushes and resolves nothing.
LEMMA NextIInv == IInv /\ [Next]_vars => IInv'
<1> SUFFICES ASSUME IInv, [Next]_vars PROVE IInv'
  OBVIOUS
<1> USE DEF IInv
<1>1. CASE UNCHANGED vars
  <2>1. TypeOK'
    BY <1>1 DEF vars, task, TypeOK
  <2>2. Arrived' /\ Awaited' /\ Numbered' /\ Distinct' /\ Resolved'
    BY <1>1 DEF vars, task, Arrived, Awaited, Numbered, Distinct, Resolved
  <2>3. EditorFilled' /\ EditorMatches' /\ TextsMatch'
    BY <1>1 DEF vars, task, EditorFilled, EditorMatches, TextsMatch
  <2> QED
    BY <2>1, <2>2, <2>3
<1>2. CASE Quiet
  BY <1>2, QuietTypes, QuietMoves, MovingKeeps
<1>3. ASSUME NEW g \in Gen, Shutdown(g) PROVE IInv'
  BY <1>3, ShutdownTypes, ShutdownMoves, MovingKeeps
<1>4. ASSUME NEW r \in Req, Task(r) \/ Reply(r) \/ Leave(r) PROVE IInv'
  <2>1. TypeOK'
    BY <1>4, TaskTypes
  <2>2. CASE \E k \in Kind : Pause(r, k)
    <3>1. pc[r] \notin Paused \cup {"absent"} /\ UNCHANGED <<home, editorId, editor>>
      <4>1. pc'[r] \in Paused
        BY <2>2 DEF Pause, Paused, TypeOK
      <4>2. CASE Read(r) \/ Reply(r)
        BY <4>2 DEF Read, Reply, Paused, gui
      <4>3. CASE TakeDecision(r)
        BY <4>1, <4>3 DEF TakeDecision, Finish, Paused, TypeOK
      <4>4. CASE Send(r)
        BY <4>1, <4>4 DEF Send, Finish, Paused, TypeOK
      <4>5. CASE TakeReplyDecision(r)
        BY <4>1, <4>5 DEF TakeReplyDecision, Finish, Record, Paused, TypeOK
      <4>6. CASE Leave(r)
        BY <4>1, <4>6 DEF Leave, Paused, TypeOK
      <4> QED
        BY <1>4, <4>2, <4>3, <4>4, <4>5, <4>6 DEF Task
    <3> QED
      BY <2>1, <2>2, <3>1, PauseKeeps
  <2>3. CASE ~\E k \in Kind : Pause(r, k)
    BY <1>4, <2>1, <2>3, TaskMoves, MovingKeeps
  <2> QED
    BY <2>2, <2>3
<1>5. ASSUME NEW r \in Req, Arrive(r) PROVE IInv'
  BY <1>5, ArriveTypes, ArriveKeeps
<1>6. ASSUME NEW do \in Outcome, Frame(do) PROVE IInv'
  BY <1>6, FrameTypes, FrameKeeps
<1> QED
  BY <1>1, <1>2, <1>3, <1>4, <1>5, <1>6 DEF Next, Loop, Quiet

-----------------------------------------------------------------------------
(* The theorems.                                                           *)

LEMMA Invariance == Spec => []IInv
<1>1. Init => IInv
  BY InitIInv
<1>2. IInv /\ [Next]_vars => IInv'
  BY NextIInv
<1> QED
  BY <1>1, <1>2, PTL DEF Spec

\* Type correctness of the proxy's variables, in particular: every queue holds texts
\* and every decision carries one, however many generations are started.
THEOREM TypeCorrect == Spec => []TypeOK
<1>1. IInv => TypeOK
  BY DEF IInv
<1> QED
  BY <1>1, Invariance, PTL

\* What the panel sends on for an item is the text it loaded for that item, unless the
\* editor still holds an item of another generation with the same id (proxy_intercept).
THEOREM EditorIsRight == Spec => []EditorHoldsItem
<1>1. IInv => EditorHoldsItem
  BY DEF IInv, EditorHoldsItem, TextsMatch
<1> QED
  BY <1>1, Invariance, PTL

-----------------------------------------------------------------------------
(* The refinement.                                                         *)

LEMMA StageStays ==
  ASSUME UNCHANGED <<pc, decision>>
  PROVE  UNCHANGED Stage
  BY DEF Stage, StageOf

\* One request's stage changes.
LEMMA StageMoves ==
  ASSUME NEW r \in Req,
         \A q \in Req \ {r} : pc'[q] = pc[q] /\ decision'[q] = decision[q]
  PROVE  Stage' = [Stage EXCEPT ![r] = StageOf(r)']
<1>1. \A q \in Req \ {r} : StageOf(q)' = StageOf(q)
  BY DEF StageOf
<1> QED
  BY <1>1 DEF Stage

\* The abstract actions, on Stage.
LEMMA AbstractMove ==
  ASSUME NEW r \in Req, NEW to, Stage' = [Stage EXCEPT ![r] = to],
         \/ StageOf(r) = "absent" /\ to = "open"
         \/ StageOf(r) = "open" /\ to \in {"held", "sent", "answered"}
         \/ StageOf(r) = "held" /\ to \in {"allowed", "refused"}
         \/ StageOf(r) = "allowed" /\ to \in {"sent", "answered"}
         \/ StageOf(r) = "sent" /\ to \in {"heldReply", "answered"}
         \/ StageOf(r) = "heldReply" /\ to \in {"released", "refused"}
         \/ StageOf(r) \in {"released", "refused"} /\ to = "answered"
  PROVE  I!Next
<1>1. Stage[r] = StageOf(r)
  BY DEF Stage
<1> QED
  BY <1>1 DEF I!Next, I!Move, I!Arrive, I!Hold, I!Allow, I!Refuse, I!SendOn, I!HoldReply,
     I!Release, I!Answer, I!Held

\* A step of a task is a step of Interception, or none.
LEMMA TaskRefines ==
  ASSUME IInv, NEW r \in Req, Task(r) \/ Reply(r)
  PROVE  [I!Next]_Stage
<1> USE DEF IInv
<1>1. \A q \in Req \ {r} : pc'[q] = pc[q] /\ decision'[q] = decision[q]
  BY DEF Task, Read, TakeDecision, Send, TakeReplyDecision, Reply, Finish, Record, Pause, Forget, TypeOK
<1>2. Stage' = [Stage EXCEPT ![r] = StageOf(r)']
  BY <1>1, StageMoves
<1>3. pc[r] \notin Paused => decision[r] = None
  BY DEF Awaited
<1>4. ASSUME Finish(r) \/ Record(r) PROVE StageOf(r)' = "answered"
  BY <1>4 DEF Finish, Record, StageOf, TypeOK
<1>5. CASE Read(r)
  <2>1. StageOf(r) = "open"
    BY <1>5 DEF Read, StageOf
  <2>2. StageOf(r)' \in {"answered", "held", "open"}
    BY <1>3, <1>4, <1>5 DEF Read, Pause, StageOf, TypeOK, Paused
  <2>3. CASE StageOf(r)' = "open"
    BY <1>2, <2>1, <2>3 DEF Stage
  <2> QED
    BY <1>2, <2>1, <2>2, <2>3, AbstractMove
<1>6. CASE TakeDecision(r)
  <2>1. CASE decision[r].verdict = "drop"
    <3>1. StageOf(r) = "refused" /\ StageOf(r)' = "answered"
      BY <1>4, <1>6, <2>1 DEF TakeDecision, StageOf
    <3> QED
      BY <1>2, <3>1, AbstractMove
  <2>2. CASE decision[r].verdict # "drop"
    <3>1. StageOf(r) = "allowed" /\ StageOf(r)' = "allowed"
      BY <1>6, <2>2 DEF TakeDecision, StageOf, TypeOK
    <3> QED
      BY <1>2, <3>1 DEF Stage
  <2> QED
    BY <2>1, <2>2
<1>7. CASE Send(r)
  <2>1. StageOf(r) \in {"open", "allowed"}
    BY <1>7 DEF Send, StageOf
  <2>2. StageOf(r)' \in {"answered", "sent"}
    BY <1>4, <1>7 DEF Send, StageOf, TypeOK
  <2> QED
    BY <1>2, <2>1, <2>2, AbstractMove
<1>8. CASE Reply(r)
  <2>1. StageOf(r) = "sent"
    BY <1>8 DEF Reply, StageOf
  <2>2. StageOf(r)' \in {"answered", "heldReply"}
    <3>1. CASE Finish(r) \/ Record(r)
      BY <3>1 DEF Finish, Record, StageOf, TypeOK
    <3>2. CASE Pause(r, "reply")
      BY <1>3, <1>4, <1>8, <3>2 DEF Reply, Pause, StageOf, TypeOK, Paused
    <3> QED
      BY <1>8, <3>1, <3>2 DEF Reply
  <2> QED
    BY <1>2, <2>1, <2>2, AbstractMove
<1>9. CASE TakeReplyDecision(r)
  <2>1. StageOf(r) \in {"refused", "released"}
    BY <1>9 DEF TakeReplyDecision, StageOf
  <2>2. StageOf(r)' = "answered"
    BY <1>4, <1>9 DEF TakeReplyDecision
  <2> QED
    BY <1>2, <2>1, <2>2, AbstractMove
<1> QED
  BY <1>5, <1>6, <1>7, <1>8, <1>9 DEF Task

\* Clients that leave, one or all of a generation.
LEMMA AbandonRefines ==
  ASSUME IInv, NEW S \in SUBSET Req, \A r \in S : pc[r] \in Alive,
         \A r \in Req : IF r \in S THEN pc'[r] = "gone"
                        ELSE pc'[r] = pc[r] /\ decision'[r] = decision[r]
  PROVE  I!Next
<1>1. \A r \in S : StageOf(r) \notin {"absent", "answered", "gone"}
  BY DEF StageOf, Alive
<1>2. Stage' = [r \in Req |-> IF r \in S THEN "gone" ELSE Stage[r]]
  <2>1. ASSUME NEW r \in Req
        PROVE  StageOf(r)' = IF r \in S THEN "gone" ELSE StageOf(r)
    <3>1. CASE r \in S
      <4>1. pc'[r] = "gone"
        BY <3>1
      <4> QED
        BY <3>1, <4>1 DEF StageOf
    <3>2. CASE r \notin S
      <4>1. pc'[r] = pc[r] /\ decision'[r] = decision[r]
        BY <3>2
      <4>2. StageOf(r)' = StageOf(r)
        BY <4>1 DEF StageOf
      <4> QED
        BY <3>2, <4>2
    <3> QED
      BY <3>1, <3>2
  <2> QED
    BY <2>1 DEF Stage
<1>3. I!Abandon(S)
  BY <1>1, <1>2 DEF I!Abandon, I!Finished, Stage
<1> QED
  BY <1>3 DEF I!Next

\* A frame decides on at most one item, and only on one that is waited for.
LEMMA FrameRefines ==
  ASSUME IInv, NEW do \in Outcome, Frame(do)
  PROVE  [I!Next]_Stage
<1> DEFINE view == Head(pending[handle])
           text == Loaded(view)
<1> USE DEF IInv
<1>1. /\ handle \in Gen /\ pending[handle] \in Seq(Text) /\ pending[handle] # <<>> /\ pc' = pc
  BY DEF Frame, TypeOK
<1>2. 1 \in 1..Len(pending[handle]) /\ view = pending[handle][1] /\ view \in Text
  BY <1>1
<1>3. PICK r \in Req : r = view.of /\ home[r] = handle
  BY <1>1, <1>2 DEF Numbered, Text
<1>4. CASE decision' = decision
  BY <1>1, <1>4, StageStays
<1>5. CASE /\ do # "look" /\ item[r] = view.id /\ pc[r] \in Paused
           /\ decision' = [decision EXCEPT ![r] = [verdict |-> do, text |-> text]]
  <2>1. decision[r] = None
    BY <1>1, <1>2, <1>3, <1>5 DEF Resolved
  <2>2. decision'[r] = [verdict |-> do, text |-> text] /\ do \in Verdict
    BY <1>3, <1>5 DEF TypeOK, Outcome
  <2>3. decision'[r] # None
    <3>1. text \in Text
      BY <1>2, <1>5, ConstantsAssumption DEF Loaded, EditorFilled, Text
    <3> QED
      BY <2>2, <3>1, ConstantsAssumption DEF Done
  <2>4. Stage' = [Stage EXCEPT ![r] = StageOf(r)']
    <3>1. \A q \in Req \ {r} : pc'[q] = pc[q] /\ decision'[q] = decision[q]
      BY <1>1, <1>3, <1>5 DEF TypeOK
    <3> QED
      BY <1>3, <3>1, StageMoves
  <2>5. CASE pc[r] = "held"
    <3>1. StageOf(r) = "held" /\ StageOf(r)' \in {"allowed", "refused"}
      BY <1>1, <2>1, <2>2, <2>3, <2>5 DEF StageOf
    <3> QED
      BY <1>3, <2>4, <3>1, AbstractMove
  <2>6. CASE pc[r] = "heldReply"
    <3>1. StageOf(r) = "heldReply" /\ StageOf(r)' \in {"released", "refused"}
      BY <1>1, <2>1, <2>2, <2>3, <2>6 DEF StageOf
    <3> QED
      BY <1>3, <2>4, <3>1, AbstractMove
  <2> QED
    BY <1>5, <2>5, <2>6 DEF Paused
<1> QED
  BY <1>3, <1>4, <1>5 DEF Frame, Paused

\* Nothing held leaves before it was allowed, nothing refused leaves at all: the proxy
\* (forward, pause, proxy_intercept) implements Interception.
THEOREM ImplementsInterception == Spec => Interception
<1>1. Init => I!Init
  BY DEF Init, I!Init, Stage, StageOf
<1>2. IInv /\ [Next]_vars => [I!Next]_Stage
  <2> SUFFICES ASSUME IInv, [Next]_vars PROVE [I!Next]_Stage
    OBVIOUS
  <2>1. CASE UNCHANGED vars
    BY <2>1, StageStays DEF vars, task
  <2>2. CASE Quiet
    BY <2>2, QuietMoves, StageStays DEF IInv
  <2>3. ASSUME NEW r \in Req, Arrive(r) PROVE [I!Next]_Stage
    <3>1. StageOf(r) = "absent"
      BY <2>3 DEF Arrive, StageOf
    <3>2. Stage' = [Stage EXCEPT ![r] = StageOf(r)']
      BY <2>3, StageMoves DEF Arrive, IInv, TypeOK
    <3>3. StageOf(r)' = "open"
      BY <2>3 DEF Arrive, StageOf, IInv, TypeOK
    <3> QED
      BY <3>1, <3>2, <3>3, AbstractMove
  <2>4. ASSUME NEW r \in Req, Task(r) \/ Reply(r) PROVE [I!Next]_Stage
    BY <2>4, TaskRefines
  <2>5. ASSUME NEW r \in Req, Leave(r) PROVE [I!Next]_Stage
    <3>1. \A q \in Req : IF q \in {r} THEN pc'[q] = "gone"
                         ELSE pc'[q] = pc[q] /\ decision'[q] = decision[q]
      BY <2>5 DEF Leave, Forget, IInv, TypeOK
    <3> QED
      BY <2>5, <3>1, AbandonRefines DEF Leave
  <2>6. ASSUME NEW g \in Gen, Shutdown(g) PROVE [I!Next]_Stage
    <3> DEFINE lost == {r \in Req : home[r] = g /\ pc[r] \in Alive}
    <3>1. \A q \in Req : IF q \in lost THEN pc'[q] = "gone"
                         ELSE pc'[q] = pc[q] /\ decision'[q] = decision[q]
      BY <2>6 DEF Shutdown
    <3> QED
      BY <3>1, AbandonRefines
  <2>7. ASSUME NEW do \in Outcome, Frame(do) PROVE [I!Next]_Stage
    BY <2>7, FrameRefines
  <2> QED
    BY <2>1, <2>2, <2>3, <2>4, <2>5, <2>6, <2>7 DEF Next, Loop, Quiet
<1> QED
  BY <1>1, <1>2, Invariance, PTL DEF Spec, Interception, I!Spec

-----------------------------------------------------------------------------
(* The certification authority.                                            *)

\* The certificate is written before its key.
CertFirst ==
  /\ keyFile # NoPair => certFile # NoPair
  /\ \A s \in KeyPair : launch[s] \in {"certWritten", "keyOpen"} => certFile # NoPair

\* The key of a start that listens is one it was given.
Signed == \A s \in KeyPair : launch[s] = "serving" => signs[s] \in KeyPair

\* Until a start has succeeded alone, threads that never overlapped leave the pair of
\* one start: whoever generates a pair found none, and has written its own certificate.
OneAtATime ==
  ~mixed /\ first = NoPair =>
    /\ keyFile \in KeyPair => certFile = keyFile
    /\ \A s, t \in KeyPair : launch[s] \in Starting /\ launch[t] \in Starting => s = t
    /\ \A s \in KeyPair :
         /\ launch[s] # "serving"
         /\ launch[s] \in Generating => keyFile \notin KeyPair
         /\ launch[s] \in {"certWritten", "keyOpen"} => certFile = s

\* Once one has, nobody generates a pair, and there is one to read.
NobodyGenerates ==
  first # NoPair =>
    /\ certFile # NoPair
    /\ \A s \in KeyPair : launch[s] \notin Generating

CaInv == CaTypeOK /\ CertFirst /\ Signed /\ OneAtATime /\ NobodyGenerates /\ CaStable

-----------------------------------------------------------------------------
LEMMA InitCaInv ==
  ASSUME MaxKeys \in Nat
  PROVE  CaInit => CaInv
  BY DEF CaInit, CaInv, CaTypeOK, CertFirst, Signed, OneAtATime, NobodyGenerates, CaStable,
         KeyPair, NoPair, Generating, Starting

\* The content of a torn file is no key.
LEMMA NextCaInv ==
  ASSUME MaxKeys \in Nat, Torn \notin 0..MaxKeys
  PROVE  CaInv /\ [CaNext]_caVars => CaInv'
<1> SUFFICES ASSUME CaInv, [CaNext]_caVars PROVE CaInv'
  OBVIOUS
<1> USE DEF CaInv, CaTypeOK, CertFirst, Signed, OneAtATime, NobodyGenerates, CaStable,
            KeyPair, NoPair, Generating, Starting, files, pairs
<1>1. ASSUME NEW s \in KeyPair, StartCa(s) PROVE CaInv'
  BY <1>1 DEF StartCa, Moves
<1>2. ASSUME NEW s \in KeyPair, Look(s) PROVE CaInv'
  BY <1>2 DEF Look, Moves
<1>3. ASSUME NEW s \in KeyPair, Load(s) PROVE CaInv'
  BY <1>3 DEF Load, Moves, Serve
<1>4. ASSUME NEW s \in KeyPair, WriteCert(s) PROVE CaInv'
  BY <1>4 DEF WriteCert, Moves
<1>5. ASSUME NEW s \in KeyPair, WriteKey(s) PROVE CaInv'
  <2>1. CASE Moves(s, "certWritten", "keyOpen") /\ keyFile' = Torn /\ UNCHANGED <<signs, pairs>>
    BY <1>5, <2>1 DEF WriteKey, Moves
  <2>2. CASE Moves(s, "keyOpen", "serving") /\ keyFile' = s /\ Serve(s, s)
    BY <1>5, <2>2 DEF WriteKey, Moves, Serve
  <2> QED
    BY <1>5, <2>1, <2>2 DEF WriteKey
<1>6. ASSUME NEW s \in KeyPair, LaunchEnds(s) PROVE CaInv'
  BY <1>6 DEF LaunchEnds
<1>7. CASE DropHandle
  BY <1>7 DEF DropHandle
<1>8. CASE Crash
  BY <1>8 DEF Crash
<1>9. CASE UNCHANGED caVars
  BY <1>9 DEF caVars
<1> QED
  BY <1>1, <1>2, <1>3, <1>4, <1>5, <1>6, <1>7, <1>8, <1>9 DEF CaNext

-----------------------------------------------------------------------------
\* The files of the CA and the threads of the starts keep their types, however the starts
\* overlap.
THEOREM CaTypes ==
  ASSUME MaxKeys \in Nat, Torn \notin 0..MaxKeys
  PROVE  CaSpec => []CaTypeOK
<1>1. CaInit => CaInv
  BY InitCaInv
<1>2. CaInv /\ [CaNext]_caVars => CaInv'
  BY NextCaInv
<1>3. CaInv => CaTypeOK
  BY DEF CaInv
<1> QED
  BY <1>1, <1>2, <1>3, PTL DEF CaSpec

\* Once a start has succeeded alone every later one signs with the same key and both
\* files stay as they are, however often starts overlap, the program is killed or a
\* write fails; without an overlap before, both files are of that pair
\* (load_or_create_ca).
THEOREM CaIsStable ==
  ASSUME MaxKeys \in Nat, Torn \notin 0..MaxKeys
  PROVE  CaSpec => []CaStable
<1>1. CaInit => CaInv
  BY InitCaInv
<1>2. CaInv /\ [CaNext]_caVars => CaInv'
  BY NextCaInv
<1>3. CaInv => CaStable
  BY DEF CaInv
<1> QED
  BY <1>1, <1>2, <1>3, PTL DEF CaSpec
=============================================================================
