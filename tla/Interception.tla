---------------------------- MODULE Interception ----------------------------
(***************************************************************************)
(* What the interception of requests promises its user: a request that is  *)
(* held reaches its server only after it was allowed, a refused one never  *)
(* does, and a reply that is held reaches its client only after it was     *)
(* released. Proxy implements it.                                          *)
(***************************************************************************)
CONSTANT Req   (* requests of clients *)

VARIABLE stage (* how far each request has come *)

Finished == {"absent", "answered", "gone"}
Held     == {"held", "heldReply"}

Init == stage = [r \in Req |-> "absent"]

Move(r, from, to) ==
  /\ stage[r] \in from
  /\ stage' = [stage EXCEPT ![r] = to]

Arrive(r)    == Move(r, {"absent"}, "open")
Hold(r)      == Move(r, {"open"}, "held")
Allow(r)     == Move(r, {"held"}, "allowed")
Refuse(r)    == Move(r, Held, "refused")
SendOn(r)    == Move(r, {"open", "allowed"}, "sent")
HoldReply(r) == Move(r, {"sent"}, "heldReply")
Release(r)   == Move(r, {"heldReply"}, "released")
Answer(r)    == Move(r, {"open", "allowed", "sent", "released", "refused"}, "answered")

\* Clients leave, alone or all at once when the proxy stops.
Abandon(S) ==
  /\ \A r \in S : stage[r] \notin Finished
  /\ stage' = [r \in Req |-> IF r \in S THEN "gone" ELSE stage[r]]

Next ==
  \/ \E r \in Req :
       \/ Arrive(r) \/ Hold(r) \/ Allow(r) \/ Refuse(r) \/ SendOn(r)
       \/ HoldReply(r) \/ Release(r) \/ Answer(r)
  \/ \E S \in SUBSET Req : Abandon(S)

Spec == Init /\ [][Next]_stage
=============================================================================
