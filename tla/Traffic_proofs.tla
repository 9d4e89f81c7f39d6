---------------------------- MODULE Traffic_proofs ----------------------------
(* The two observers of packets. A redirected connection reaches its own        *)
(* server, and a dropped redirection rewrites at most one more packet, for any  *)
(* number of connections and ports. Every session saved from a capture is       *)
(* consistent, for any conversations, limits and number of packets, although    *)
(* packets come in between the copies.                                          *)
EXTENDS Redirect, Capture, WellFoundedInduction, FiniteSetTheorems, TLAPS

-----------------------------------------------------------------------------
(* The redirection: its inductive invariant.                               *)

\* A packet that waits, and a connection that was opened, have a port.
HavePorts ==
  /\ \A c \in Conn : conn[c] # "unused" => port[c] \in Port
  /\ \A i \in 1..Len(wire) : conn[wire[i]] # "unused"

\* A connection that was not opened was not accepted.
OnlyOpened == \A c \in Conn : conn[c] = "unused" => bridge[c] = "none"

\* Two connections that are open have different ports.
Exclusive ==
  \A c, d \in Conn : c # d /\ conn[c] \in Open /\ conn[d] \in Open => port[c] # port[d]

\* A packet of another connection, left from the time when that had the port.
Stale(i, d) == wire[i] # d /\ port[wire[i]] = port[d]

\* Such packets come before the first of the connection that has the port now ...
StaleFirst ==
  \A d \in Conn, i, j \in 1..Len(wire) :
    conn[d] = "connecting" /\ wire[j] = d /\ Stale(i, d) => i < j

\* ... so there are none when that one is redirected, and the map has its server.
Redirected == {"backlog", "redirected"}

NoneStale == \A d \in Conn, i \in 1..Len(wire) : conn[d] \in Redirected => ~Stale(i, d)

Mapped == \A d \in Conn : conn[d] \in Redirected => nat[port[d]] = Server[d]

Routed == \A d \in Conn : conn[d] = "redirected" => dest[d] = Server[d]

\* After the flag the driver's thread does not wait for a packet a second time.
LateOnce == late \in {0, 1} /\ (late = 1 => stop /\ divert \in {"check", "ended"})

RdInv ==
  /\ RdTypeOK /\ HavePorts /\ OnlyOpened /\ Exclusive
  /\ StaleFirst /\ NoneStale /\ Mapped /\ Routed
  /\ LateOnce

-----------------------------------------------------------------------------
(* Steps that leave the wire and the map alone, and only close connections. *)

\* Each connection is as it was or closed; bridges and flags may do what they like.
Closing ==
  /\ \A c \in Conn : conn'[c] = conn[c] \/ (conn[c] # "unused" /\ conn'[c] = "closed")
  /\ \A c \in Conn : conn[c] = "unused" => bridge'[c] = bridge[c]
  /\ UNCHANGED <<wire, nat, port>>
  /\ \A c \in Conn : conn'[c] = "redirected" => dest'[c] = dest[c]

LEMMA ClosingKeeps ==
  ASSUME RdInv, Closing, RdTypeOK', LateOnce'
  PROVE  RdInv'
<1> USE DEF RdInv, Closing
<1>1. HavePorts'
  <2>1. \A c \in Conn : conn'[c] # "unused" => port'[c] \in Port
    BY DEF HavePorts
  <2>2. ASSUME NEW i \in 1..Len(wire) PROVE conn'[wire[i]] # "unused"
    <3>1. wire[i] \in Conn
      BY DEF RdTypeOK
    <3> QED
      BY <3>1 DEF HavePorts
  <2> QED
    BY <2>1, <2>2 DEF HavePorts
<1>2. Exclusive'
  BY DEF Exclusive, Open
<1>3. StaleFirst'
  BY DEF StaleFirst, Stale
<1>4. NoneStale'
  BY DEF NoneStale, Stale, Redirected
<1>5. Mapped' /\ Routed'
  BY DEF Mapped, Routed, Redirected
<1>6. OnlyOpened'
  BY DEF OnlyOpened
<1> QED
  BY <1>1, <1>2, <1>3, <1>4, <1>5, <1>6

-----------------------------------------------------------------------------
(* Types.                                                                  *)

LEMMA InitRdTypes ==
  ASSUME Target \subseteq Conn
  PROVE  RdInit => RdTypeOK
<1> SUFFICES ASSUME Target \subseteq Conn, RdInit PROVE RdTypeOK
  OBVIOUS
<1>1. /\ conn \in [Conn -> Open \cup {"unused", "closed"}]
      /\ port \in [Conn -> Port \cup {Nobody}]
      /\ ports \subseteq Port
  BY DEF RdInit, Open
<1>2. wire \in Seq(Conn)
  BY DEF RdInit
<1>3. nat \in [Port -> Servers \cup {Nobody}] /\ dest \in [Conn -> Servers \cup {Nobody}]
  BY DEF RdInit
<1>4. /\ bridge \in [Conn -> {"none", "connecting", "copying", "ended"}]
      /\ pump \in [Conn -> [Way -> {"off", "read", "write"}]]
  BY DEF RdInit
<1>5. /\ stop \in BOOLEAN /\ refresher \in {"check", "publish", "ended"} /\ seen \subseteq Port
      /\ divert \in {"opening", "check", "recv", "ended"}
      /\ listener \in {"listening", "ended"}
  BY Zenon DEF RdInit
<1>6. late \in 0..2
  <2>1. late = 0
    BY Zenon DEF RdInit
  <2> QED
    BY <2>1
<1> QED
  BY <1>1, <1>2, <1>3, <1>4, <1>5, <1>6 DEF RdTypeOK

\* A direction's step leaves everything but its bridge and its connection, which may end.
LEMMA DirectionStep ==
  ASSUME NEW c \in Conn, NEW d \in Way,
         DirectionReads(c, d) \/ DirectionStops(c, d) \/ DirectionWrites(c, d)
  PROVE  /\ bridge[c] = "copying"
         /\ UNCHANGED <<stop, refresher, seen, ports, divert, wire, nat, listener, port, dest, late>>
         /\ \E to \in {"off", "read", "write"} : pump' = [pump EXCEPT ![c][d] = to]
         /\ \/ UNCHANGED <<bridge, conn>>
            \/ /\ bridge' = [bridge EXCEPT ![c] = "ended"]
               /\ conn' = [conn EXCEPT ![c] = "closed"]
<1> USE DEF Pumps, DirectionEnds
<1>1. CASE DirectionReads(c, d)
  BY <1>1 DEF DirectionReads
<1>2. CASE DirectionStops(c, d)
  BY <1>2 DEF DirectionStops
<1>3. CASE DirectionWrites(c, d)
  BY <1>3 DEF DirectionWrites
<1> QED
  BY <1>1, <1>2, <1>3

LEMMA NextRdTypes ==
  ASSUME RdTypeOK, RdNext, HavePorts, Target \subseteq Conn
  PROVE  RdTypeOK'
<1> USE DEF RdTypeOK, sockets
<1>1. CASE RefresherReads
  <2>1. {port[c] : c \in {c \in Target : conn[c] \in Open}} \subseteq Port
    BY DEF HavePorts, Open
  <2> QED
    BY <1>1, <2>1 DEF RefresherReads
<1>2. CASE RefresherPublishes
  BY <1>2 DEF RefresherPublishes
<1>3. CASE DivertOpens
  BY <1>3 DEF DivertOpens
<1>4. CASE DivertChecks
  BY <1>4 DEF DivertChecks
<1>5. CASE DivertRewrites
  <2>1. Head(wire) \in Conn /\ wire' \in Seq(Conn)
    BY <1>5 DEF DivertRewrites
  <2>2. nat' \in [Port -> Servers \cup {Nobody}]
    BY <1>5, <2>1 DEF DivertRewrites, NatInsert, Servers
  <2>3. conn' \in [Conn -> Open \cup {"unused", "closed"}]
    BY <1>5, <2>1 DEF DivertRewrites, ToListener, ToServer, Open
  <2>4. late' \in 0..2
    BY <1>5 DEF DivertRewrites
  <2> QED
    BY <1>5, <2>1, <2>2, <2>3, <2>4 DEF DivertRewrites
<1>6. CASE Undiverted
  <2>1. Head(wire) \in Conn /\ wire' \in Seq(Conn)
    BY <1>6 DEF Undiverted
  <2>2. conn' \in [Conn -> Open \cup {"unused", "closed"}]
    BY <1>6, <2>1 DEF Undiverted, ToServer, Open
  <2> QED
    BY <1>6, <2>1, <2>2 DEF Undiverted
<1>7. CASE ListenerEnds
  BY <1>7 DEF ListenerEnds
<1>8. ASSUME NEW c \in Conn, ListenerAccepts(c) PROVE RdTypeOK'
  <2>1. nat[port[c]] \in Servers \cup {Nobody}
    BY <1>8 DEF ListenerAccepts, HavePorts
  <2> QED
    BY <1>8, <2>1 DEF ListenerAccepts, Open
<1>9. ASSUME NEW c \in Conn, BridgeConnects(c) PROVE RdTypeOK'
  BY <1>9 DEF BridgeConnects
<1>10. ASSUME NEW c \in Conn, NEW d \in Way,
              DirectionReads(c, d) \/ DirectionStops(c, d) \/ DirectionWrites(c, d)
       PROVE  RdTypeOK'
  <2>1. pump' \in [Conn -> [Way -> {"off", "read", "write"}]]
    <3>1. PICK to \in {"off", "read", "write"} : pump' = [pump EXCEPT ![c][d] = to]
      BY <1>10, DirectionStep
    <3>2. [pump[c] EXCEPT ![d] = to] \in [Way -> {"off", "read", "write"}]
      OBVIOUS
    <3>3. pump' = [pump EXCEPT ![c] = [pump[c] EXCEPT ![d] = to]]
      BY <3>1
    <3> HIDE DEF Way
    <3> QED
      BY <3>2, <3>3
  <2>2. bridge' \in [Conn -> {"none", "connecting", "copying", "ended"}]
    BY <1>10, DirectionStep
  <2>3. conn' \in [Conn -> Open \cup {"unused", "closed"}]
    BY <1>10, DirectionStep
  <2>4. UNCHANGED <<stop, refresher, seen, ports, divert, wire, nat, listener, port, dest, late>>
    BY <1>10, DirectionStep
  <2> QED
    BY <2>1, <2>2, <2>3, <2>4
<1>11. CASE Drop
  BY <1>11 DEF Drop
<1>12. ASSUME NEW c \in Conn, NEW p \in Port, Connect(c, p) PROVE RdTypeOK'
  BY <1>12 DEF Connect, Open
<1>13. ASSUME NEW c \in Conn, SendPacket(c) PROVE RdTypeOK'
  BY <1>13 DEF SendPacket
<1>14. ASSUME NEW c \in Conn, Close(c) PROVE RdTypeOK'
  BY <1>14 DEF Close
<1> QED
  BY <1>1, <1>2, <1>3, <1>4, <1>5, <1>6, <1>7, <1>8, <1>9, <1>10, <1>11, <1>12, <1>13, <1>14
  DEF RdNext, Refresher, Divert, Listener, Bridge

-----------------------------------------------------------------------------
(* Every step keeps the invariant.                                         *)

LEMMA InitRdInv ==
  ASSUME Target \subseteq Conn
  PROVE  RdInit => RdInv
<1> SUFFICES ASSUME RdInit PROVE RdInv
  OBVIOUS
<1>1. RdTypeOK
  BY InitRdTypes
<1>2. /\ wire = <<>> /\ Len(wire) = 0
      /\ \A c \in Conn : conn[c] \notin Redirected /\ conn[c] \notin {"connecting"}
  BY DEF RdInit, Redirected
<1>3. HavePorts
  BY <1>2 DEF RdInit, HavePorts
<1>4. Exclusive
  BY DEF RdInit, Exclusive, Open
<1>5. StaleFirst /\ NoneStale
  BY <1>2 DEF StaleFirst, NoneStale
<1>6. Mapped /\ Routed
  BY <1>2 DEF Mapped, Routed, Redirected
<1>7. LateOnce /\ OnlyOpened
  BY DEF RdInit, LateOnce, OnlyOpened
<1> QED
  BY <1>1, <1>3, <1>4, <1>5, <1>6, <1>7 DEF RdInv

LEMMA LateStep ==
  ASSUME LateOnce, RdNext
  PROVE  LateOnce'
<1> USE DEF LateOnce, sockets
<1>1. CASE Refresher
  BY <1>1 DEF Refresher, RefresherReads, RefresherPublishes
<1>2. CASE Divert
  BY <1>2 DEF Divert, DivertOpens, DivertChecks, DivertRewrites
<1>3. CASE Undiverted \/ Listener \/ Drop
  BY <1>3 DEF Undiverted, Listener, ListenerEnds, ListenerAccepts, Drop
<1>4. ASSUME NEW c \in Conn, Bridge(c) \/ SendPacket(c) \/ Close(c) \/ \E p \in Port : Connect(c, p)
      PROVE  LateOnce'
  BY <1>4, DirectionStep DEF Bridge, BridgeConnects, SendPacket, Close, Connect
<1> QED
  BY <1>1, <1>2, <1>3, <1>4 DEF RdNext

\* A packet has left the wire.
LEMMA TailOfWire ==
  ASSUME RdTypeOK, wire # <<>>, wire' = Tail(wire)
  PROVE  /\ Head(wire) = wire[1] /\ 1 \in 1..Len(wire) /\ wire[1] \in Conn
         /\ \A i \in 1..Len(wire') : i + 1 \in 2..Len(wire) /\ wire'[i] = wire[i + 1]
         /\ \A i \in 1..Len(wire) : wire[i] \in Conn
  BY DEF RdTypeOK

\* A packet has joined it.
LEMMA AppendToWire ==
  ASSUME RdTypeOK, NEW c \in Conn, wire' = Append(wire, c)
  PROVE  /\ Len(wire') = Len(wire) + 1 /\ Len(wire) \in Nat
         /\ wire'[Len(wire) + 1] = c
         /\ \A i \in 1..Len(wire) : wire'[i] = wire[i] /\ wire[i] \in Conn
  BY DEF RdTypeOK

\* The driver's thread sends a packet of the target to the listener.
LEMMA RewritesKeep ==
  ASSUME RdInv, RdTypeOK', LateOnce', NEW c \in Conn,
         wire # <<>>, c = Head(wire), wire' = Tail(wire),
         nat' = NatInsert(port[c], Server[c]), ToListener(c), UNCHANGED <<port, bridge, dest>>
  PROVE  RdInv'
<1> USE DEF RdInv
<1>1. /\ wire[1] = c /\ 1 \in 1..Len(wire)
      /\ \A i \in 1..Len(wire') : i + 1 \in 2..Len(wire) /\ wire'[i] = wire[i + 1]
      /\ \A i \in 1..Len(wire) : wire[i] \in Conn
  BY TailOfWire
<1>2. conn[c] # "unused" /\ port[c] \in Port
  BY <1>1 DEF HavePorts
<1>3. /\ \A d \in Conn \ {c} : conn'[d] = conn[d]
      /\ conn'[c] \in IF conn[c] = "connecting" THEN {"backlog", "closed"}
                      ELSE {conn[c], "closed"}
      /\ conn[c] = "direct" => conn'[c] = "closed"
      /\ conn[c] = "closed" => conn'[c] = "closed"
  BY DEF ToListener, RdTypeOK
<1>4. /\ nat'[port[c]] = Server[c]
      /\ \A p \in Port \ {port[c]} : nat'[p] = nat[p]
  BY <1>2 DEF NatInsert, RdTypeOK
<1>5. HavePorts'
  <2>1. \A d \in Conn : conn'[d] # "unused" => port'[d] \in Port
    BY <1>2, <1>3 DEF HavePorts
  <2>2. ASSUME NEW i \in 1..Len(wire') PROVE conn'[wire'[i]] # "unused"
    <3>1. i + 1 \in 1..Len(wire) /\ wire'[i] = wire[i + 1] /\ wire[i + 1] \in Conn
      BY <1>1
    <3>2. conn[wire[i + 1]] # "unused"
      BY <3>1 DEF HavePorts
    <3> QED
      BY <1>2, <1>3, <3>1, <3>2
  <2> QED
    BY <2>1, <2>2 DEF HavePorts
<1>6. Exclusive'
  BY <1>3 DEF Exclusive, Open
<1>7. StaleFirst'
  <2> SUFFICES ASSUME NEW d \in Conn, NEW i \in 1..Len(wire'), NEW j \in 1..Len(wire'),
                      conn'[d] = "connecting", wire'[j] = d, Stale(i, d)'
               PROVE  i < j
    BY DEF StaleFirst
  <2>1. conn[d] = "connecting"
    BY <1>3
  <2>2. /\ i + 1 \in 1..Len(wire) /\ wire'[i] = wire[i + 1]
        /\ j + 1 \in 1..Len(wire) /\ wire'[j] = wire[j + 1]
    BY <1>1
  <2>3. Stale(i + 1, d)
    BY <2>2 DEF Stale
  <2>4. i + 1 < j + 1
    BY <2>1, <2>2, <2>3 DEF StaleFirst
  <2> QED
    BY <2>4
<1>8. NoneStale'
  <2> SUFFICES ASSUME NEW d \in Conn, NEW i \in 1..Len(wire'), conn'[d] \in Redirected, Stale(i, d)'
               PROVE  FALSE
    BY DEF NoneStale
  <2>1. i + 1 \in 2..Len(wire) /\ i + 1 \in 1..Len(wire) /\ wire'[i] = wire[i + 1]
    BY <1>1
  <2>2. Stale(i + 1, d)
    BY <2>1 DEF Stale
  <2>3. CASE conn[d] \in Redirected
    BY <2>1, <2>2, <2>3 DEF NoneStale
  <2>4. CASE conn[d] \notin Redirected
    <3>1. d = c /\ conn[c] = "connecting"
      BY <1>3, <2>4 DEF Redirected
    <3>2. i + 1 < 1
      BY <1>1, <2>1, <2>2, <3>1 DEF StaleFirst
    <3> QED
      BY <2>1, <3>2
  <2> QED
    BY <2>3, <2>4
<1>9. Mapped'
  <2> SUFFICES ASSUME NEW d \in Conn, conn'[d] \in Redirected PROVE nat'[port[d]] = Server[d]
    BY DEF Mapped
  <2>1. CASE d = c
    BY <1>4, <2>1
  <2>2. CASE d # c
    <3>1. conn[d] \in Redirected
      BY <1>3, <2>2
    <3>2. port[d] # port[c]
      BY <1>1, <2>2, <3>1 DEF NoneStale, Stale
    <3>3. port[d] \in Port
      BY <3>1 DEF HavePorts, Redirected
    <3> QED
      BY <1>4, <3>1, <3>2, <3>3 DEF Mapped
  <2> QED
    BY <2>1, <2>2
<1>10. Routed' /\ OnlyOpened'
  BY <1>2, <1>3 DEF Routed, OnlyOpened
<1> QED
  BY <1>5, <1>6, <1>7, <1>8, <1>9, <1>10

\* A packet goes its own way.
LEMMA PassesKeep ==
  ASSUME RdInv, RdTypeOK', LateOnce', NEW c \in Conn,
         wire # <<>>, c = Head(wire), wire' = Tail(wire),
         ToServer(c), UNCHANGED <<nat, port, bridge, dest>>
  PROVE  RdInv'
<1> USE DEF RdInv
<1>1. /\ wire[1] = c /\ 1 \in 1..Len(wire)
      /\ \A i \in 1..Len(wire') : i + 1 \in 2..Len(wire) /\ wire'[i] = wire[i + 1]
      /\ \A i \in 1..Len(wire) : wire[i] \in Conn
  BY TailOfWire
<1>2. conn[c] # "unused" /\ port[c] \in Port
  BY <1>1 DEF HavePorts
<1>3. /\ \A d \in Conn \ {c} : conn'[d] = conn[d]
      /\ conn'[c] \in {"direct", "closed"} /\ (conn[c] = "closed" => conn'[c] = "closed")
  BY <1>2 DEF ToServer, RdTypeOK, Open
<1>4. HavePorts'
  <2>1. \A d \in Conn : conn'[d] # "unused" => port'[d] \in Port
    BY <1>2, <1>3 DEF HavePorts
  <2>2. ASSUME NEW i \in 1..Len(wire') PROVE conn'[wire'[i]] # "unused"
    <3>1. i + 1 \in 1..Len(wire) /\ wire'[i] = wire[i + 1] /\ wire[i + 1] \in Conn
      BY <1>1
    <3>2. conn[wire[i + 1]] # "unused"
      BY <3>1 DEF HavePorts
    <3> QED
      BY <1>3, <3>1, <3>2
  <2> QED
    BY <2>1, <2>2 DEF HavePorts
<1>5. Exclusive'
  <2>1. conn'[c] \in Open => conn[c] \in Open
    BY <1>2, <1>3 DEF RdTypeOK, Open
  <2> QED
    BY <1>3, <2>1 DEF Exclusive
<1>6. StaleFirst'
  <2> SUFFICES ASSUME NEW d \in Conn, NEW i \in 1..Len(wire'), NEW j \in 1..Len(wire'),
                      conn'[d] = "connecting", wire'[j] = d, Stale(i, d)'
               PROVE  i < j
    BY DEF StaleFirst
  <2>1. conn[d] = "connecting"
    BY <1>3
  <2>2. /\ i + 1 \in 1..Len(wire) /\ wire'[i] = wire[i + 1]
        /\ j + 1 \in 1..Len(wire) /\ wire'[j] = wire[j + 1]
    BY <1>1
  <2>3. i + 1 < j + 1
    BY <2>1, <2>2 DEF StaleFirst, Stale
  <2> QED
    BY <2>3
<1>7. NoneStale'
  <2> SUFFICES ASSUME NEW d \in Conn, NEW i \in 1..Len(wire'), conn'[d] \in Redirected, Stale(i, d)'
               PROVE  FALSE
    BY DEF NoneStale
  <2>1. i + 1 \in 1..Len(wire) /\ wire'[i] = wire[i + 1]
    BY <1>1
  <2>2. conn[d] \in Redirected
    BY <1>3 DEF Redirected
  <2> QED
    BY <2>1, <2>2 DEF NoneStale, Stale
<1>8. Mapped' /\ Routed' /\ OnlyOpened'
  BY <1>2, <1>3 DEF Mapped, Routed, Redirected, OnlyOpened
<1> QED
  BY <1>4, <1>5, <1>6, <1>7, <1>8

\* The listener takes a connection that waits, and looks its server up.
LEMMA AcceptKeeps ==
  ASSUME RdInv, RdTypeOK', LateOnce', NEW c \in Conn, ListenerAccepts(c)
  PROVE  RdInv'
<1> USE DEF RdInv
<1>1. CASE nat[port[c]] = Nobody
  <2>1. Closing
    BY <1>1 DEF ListenerAccepts, Closing, RdTypeOK
  <2> QED
    BY <2>1, ClosingKeeps
<1>2. CASE nat[port[c]] # Nobody
  <2>1. /\ conn[c] = "backlog" /\ conn'[c] = "redirected" /\ dest'[c] = nat[port[c]]
        /\ \A d \in Conn \ {c} :
             conn'[d] = conn[d] /\ dest'[d] = dest[d] /\ bridge'[d] = bridge[d]
        /\ UNCHANGED <<wire, nat, port>>
    BY <1>2 DEF ListenerAccepts, RdTypeOK
  <2>2. \A i \in 1..Len(wire) : wire[i] \in Conn
    BY DEF RdTypeOK
  <2>3. HavePorts'
    BY <2>1, <2>2 DEF HavePorts
  <2>4. Exclusive'
    BY <2>1 DEF Exclusive, Open
  <2>5. StaleFirst' /\ NoneStale'
    BY <2>1 DEF StaleFirst, NoneStale, Stale, Redirected
  <2>6. Mapped' /\ Routed' /\ OnlyOpened'
    BY <2>1 DEF Mapped, Routed, Redirected, OnlyOpened
  <2> QED
    BY <2>3, <2>4, <2>5, <2>6
<1> QED
  BY <1>1, <1>2

\* A process opens a connection on a port no open connection has.
LEMMA ConnectKeeps ==
  ASSUME RdInv, RdTypeOK', LateOnce', NEW c \in Conn, NEW p \in Port, Connect(c, p)
  PROVE  RdInv'
<1> USE DEF RdInv
<1>1. /\ conn[c] = "unused" /\ conn'[c] = "connecting" /\ port'[c] = p
      /\ \A d \in Conn \ {c} : conn'[d] = conn[d] /\ port'[d] = port[d]
      /\ UNCHANGED <<nat, bridge, dest>>
      /\ \A d \in Conn : conn[d] \in Open => port[d] # p
  BY DEF Connect, RdTypeOK, InUse
<1>2. /\ Len(wire') = Len(wire) + 1 /\ Len(wire) \in Nat
      /\ wire'[Len(wire) + 1] = c
      /\ \A i \in 1..Len(wire) : wire'[i] = wire[i] /\ wire[i] \in Conn \ {c}
  BY <1>1, AppendToWire DEF Connect, HavePorts
<1>3. HavePorts'
  <2>1. \A d \in Conn : conn'[d] # "unused" => port'[d] \in Port
    BY <1>1 DEF HavePorts
  <2>2. ASSUME NEW i \in 1..Len(wire') PROVE conn'[wire'[i]] # "unused"
    <3>1. CASE i = Len(wire) + 1
      BY <1>1, <1>2, <3>1
    <3>2. CASE i \in 1..Len(wire)
      BY <1>1, <1>2, <3>2 DEF HavePorts
    <3> QED
      BY <1>2, <3>1, <3>2
  <2> QED
    BY <2>1, <2>2 DEF HavePorts
<1>4. Exclusive'
  BY <1>1 DEF Exclusive, Open
<1>5. StaleFirst'
  <2> SUFFICES ASSUME NEW d \in Conn, NEW i \in 1..Len(wire'), NEW j \in 1..Len(wire'),
                      conn'[d] = "connecting", wire'[j] = d, Stale(i, d)'
               PROVE  i < j
    BY DEF StaleFirst
  <2>1. CASE d = c
    <3>1. j = Len(wire) + 1
      BY <1>2, <2>1
    <3>2. i # Len(wire) + 1
      BY <1>2, <2>1 DEF Stale
    <3> QED
      BY <1>2, <3>1, <3>2
  <2>2. CASE d # c
    <3>1. conn[d] = "connecting" /\ port'[d] = port[d] /\ port[d] # p
      BY <1>1, <2>2 DEF Open
    <3>2. j \in 1..Len(wire) /\ wire[j] = d
      BY <1>2, <2>2
    <3>3. i # Len(wire) + 1
      BY <1>1, <1>2, <3>1 DEF Stale
    <3>4. i \in 1..Len(wire) /\ Stale(i, d)
      BY <1>1, <1>2, <3>1, <3>3 DEF Stale
    <3> QED
      BY <3>1, <3>2, <3>4 DEF StaleFirst
  <2> QED
    BY <2>1, <2>2
<1>6. NoneStale'
  <2> SUFFICES ASSUME NEW d \in Conn, NEW i \in 1..Len(wire'), conn'[d] \in Redirected, Stale(i, d)'
               PROVE  FALSE
    BY DEF NoneStale
  <2>1. d # c /\ conn[d] \in Redirected /\ port'[d] = port[d] /\ port[d] # p
    BY <1>1 DEF Redirected, Open
  <2>2. i # Len(wire) + 1
    BY <1>1, <1>2, <2>1 DEF Stale
  <2>3. i \in 1..Len(wire) /\ Stale(i, d)
    BY <1>1, <1>2, <2>1, <2>2 DEF Stale
  <2> QED
    BY <2>1, <2>3 DEF NoneStale
<1>7. Mapped' /\ Routed' /\ OnlyOpened'
  BY <1>1 DEF Mapped, Routed, Redirected, OnlyOpened
<1> QED
  BY <1>3, <1>4, <1>5, <1>6, <1>7

\* A process sends on a connection that is open, so on a port of its own.
LEMMA SendKeeps ==
  ASSUME RdInv, RdTypeOK', LateOnce', NEW c \in Conn, SendPacket(c)
  PROVE  RdInv'
<1> USE DEF RdInv
<1>1. /\ conn[c] \in {"direct", "redirected"}
      /\ UNCHANGED <<conn, port, nat, bridge, dest>>
      /\ \A d \in Conn \ {c} : conn[d] \in Open => port[d] # port[c]
  BY DEF SendPacket, sockets, Exclusive, Open
<1>2. /\ Len(wire') = Len(wire) + 1 /\ Len(wire) \in Nat
      /\ wire'[Len(wire) + 1] = c
      /\ \A i \in 1..Len(wire) : wire'[i] = wire[i] /\ wire[i] \in Conn
  BY AppendToWire DEF SendPacket
<1>3. \A d \in Conn, i \in 1..Len(wire') :
        conn[d] \in Open /\ Stale(i, d)' => d = c \/ i # Len(wire) + 1
  BY <1>1, <1>2 DEF Stale
<1>4. HavePorts'
  BY <1>1, <1>2 DEF HavePorts
<1>5. StaleFirst'
  <2> SUFFICES ASSUME NEW d \in Conn, NEW i \in 1..Len(wire'), NEW j \in 1..Len(wire'),
                      conn'[d] = "connecting", wire'[j] = d, Stale(i, d)'
               PROVE  i < j
    BY DEF StaleFirst
  <2>1. d # c /\ conn[d] = "connecting" /\ conn[d] \in Open
    BY <1>1 DEF Open
  <2>2. i \in 1..Len(wire) /\ j \in 1..Len(wire)
    <3>1. i # Len(wire) + 1
      BY <1>3, <2>1
    <3>2. j # Len(wire) + 1
      BY <1>2, <2>1
    <3> QED
      BY <1>2, <3>1, <3>2
  <2> QED
    BY <1>1, <1>2, <2>1, <2>2 DEF StaleFirst, Stale
<1>6. NoneStale'
  <2> SUFFICES ASSUME NEW d \in Conn, NEW i \in 1..Len(wire'), conn'[d] \in Redirected, Stale(i, d)'
               PROVE  FALSE
    BY DEF NoneStale
  <2>1. conn[d] \in Redirected /\ conn[d] \in Open
    BY <1>1 DEF Open, Redirected
  <2>2. i \in 1..Len(wire)
    <3>1. CASE d = c
      <4>1. i # Len(wire) + 1
        BY <1>2, <3>1 DEF Stale
      <4> QED
        BY <1>2, <4>1
    <3>2. CASE d # c
      <4>1. i # Len(wire) + 1
        BY <1>3, <2>1, <3>2
      <4> QED
        BY <1>2, <4>1
    <3> QED
      BY <3>1, <3>2
  <2> QED
    BY <1>1, <1>2, <2>1, <2>2 DEF NoneStale, Stale
<1>7. Exclusive' /\ Mapped' /\ Routed' /\ OnlyOpened'
  BY <1>1 DEF Exclusive, Mapped, Routed, OnlyOpened
<1> QED
  BY <1>4, <1>5, <1>6, <1>7

LEMMA NextRdInv ==
  ASSUME Target \subseteq Conn
  PROVE  RdInv /\ [RdNext]_rdVars => RdInv'
<1> SUFFICES ASSUME RdInv, [RdNext]_rdVars PROVE RdInv'
  OBVIOUS
<1>1. CASE UNCHANGED rdVars
  BY <1>1 DEF rdVars, sockets, RdInv, RdTypeOK, HavePorts, Exclusive, StaleFirst, NoneStale, Stale,
     Mapped, Routed, LateOnce, OnlyOpened
<1> SUFFICES ASSUME RdNext PROVE RdInv'
  BY <1>1
<1>2. RdTypeOK' /\ LateOnce'
  BY NextRdTypes, LateStep DEF RdInv
<1>3. RdTypeOK
  BY DEF RdInv
<1>4. CASE Closing
  BY <1>2, <1>4, ClosingKeeps
<1>5. CASE Refresher \/ Drop
  BY <1>4, <1>5 DEF Refresher, RefresherReads, RefresherPublishes, Drop, sockets, Closing
<1>6. CASE Divert
  <2>1. CASE DivertOpens \/ DivertChecks
    BY <1>4, <2>1 DEF DivertOpens, DivertChecks, sockets, Closing
  <2>2. CASE DivertRewrites
    <3> DEFINE c == Head(wire)
    <3>1. c \in Conn
      BY <1>3, <2>2 DEF DivertRewrites, RdTypeOK
    <3>2. CASE port[c] \in ports
      BY <1>2, <2>2, <3>1, <3>2, RewritesKeep DEF DivertRewrites
    <3>3. CASE port[c] \notin ports
      BY <1>2, <2>2, <3>1, <3>3, PassesKeep DEF DivertRewrites
    <3> QED
      BY <3>2, <3>3
  <2> QED
    BY <1>6, <2>1, <2>2 DEF Divert
<1>7. CASE Undiverted
  <2>1. Head(wire) \in Conn
    BY <1>3, <1>7 DEF Undiverted, RdTypeOK
  <2> QED
    BY <1>2, <1>7, <2>1, PassesKeep DEF Undiverted
<1>8. CASE ListenerEnds
  BY <1>4, <1>8 DEF ListenerEnds, Closing
<1>9. ASSUME NEW c \in Conn, ListenerAccepts(c) PROVE RdInv'
  BY <1>2, <1>9, AcceptKeeps
<1>10. ASSUME NEW c \in Conn, Bridge(c) PROVE RdInv'
  <2>1. bridge[c] # "none" /\ UNCHANGED <<wire, nat, port, dest>>
    BY <1>10, DirectionStep DEF Bridge, BridgeConnects
  <2>2. \A d \in Conn \ {c} : conn'[d] = conn[d] /\ bridge'[d] = bridge[d]
    BY <1>3, <1>10, DirectionStep DEF Bridge, BridgeConnects, RdTypeOK
  <2>3. conn[c] # "unused" /\ conn'[c] \in {conn[c], "closed"}
    BY <1>3, <1>10, <2>1, DirectionStep DEF RdInv, OnlyOpened, Bridge, BridgeConnects, RdTypeOK
  <2>4. Closing
    BY <2>1, <2>2, <2>3 DEF Closing
  <2> QED
    BY <1>4, <2>4
<1>11. ASSUME NEW c \in Conn, NEW p \in Port, Connect(c, p) PROVE RdInv'
  BY <1>2, <1>11, ConnectKeeps
<1>12. ASSUME NEW c \in Conn, SendPacket(c) PROVE RdInv'
  BY <1>2, <1>12, SendKeeps
<1>13. ASSUME NEW c \in Conn, Close(c) PROVE RdInv'
  BY <1>3, <1>4, <1>13 DEF Close, RdTypeOK, Open, Closing
<1> QED
  BY <1>5, <1>6, <1>7, <1>8, <1>9, <1>10, <1>11, <1>12, <1>13 DEF RdNext, Listener

-----------------------------------------------------------------------------
\* The threads, the driver's packets and the bridges of a redirection keep their types,
\* for any connections and ports.
THEOREM RedirectTypes ==
  ASSUME Target \subseteq Conn
  PROVE  RdSpec => []RdTypeOK
<1>1. RdInit => RdInv
  BY InitRdInv
<1>2. RdInv /\ [RdNext]_rdVars => RdInv'
  BY NextRdInv
<1>3. RdInv => RdTypeOK
  BY DEF RdInv
<1> QED
  BY <1>1, <1>2, <1>3, PTL DEF RdSpec

\* A connection that was accepted is copied to the server its process asked for, and
\* answers come back under that server's address, however ports are reused
\* (rewrite_packet, bridge).
THEOREM BridgesAreRight ==
  ASSUME Target \subseteq Conn
  PROVE  RdSpec => []BridgesToOwnServer
<1>1. RdInit => RdInv
  BY InitRdInv
<1>2. RdInv /\ [RdNext]_rdVars => RdInv'
  BY NextRdInv
<1>3. RdInv => BridgesToOwnServer
  BY DEF RdInv, Mapped, Routed, Redirected, BridgesToOwnServer
<1> QED
  BY <1>1, <1>2, <1>3, PTL DEF RdSpec

\* After the handle is dropped at most the packet the driver's thread is waiting for is
\* rewritten (divert_loop).
THEOREM RewritesOnce ==
  ASSUME Target \subseteq Conn
  PROVE  RdSpec => []RewritesOnceAfterDrop
<1>1. RdInit => RdInv
  BY InitRdInv
<1>2. RdInv /\ [RdNext]_rdVars => RdInv'
  BY NextRdInv
<1>3. RdInv => RewritesOnceAfterDrop
  BY DEF RdInv, LateOnce, RewritesOnceAfterDrop
<1> QED
  BY <1>1, <1>2, <1>3, PTL DEF RdSpec

-----------------------------------------------------------------------------
(* The capture. What the sum of the packets of all conversations is: the   *)
(* fold that adds them up takes one conversation after the other, so it is *)
(* reasoned about by induction on the set of those it has taken.           *)

\* Induction on a set of numbers.
LEMMA SetInduction ==
  ASSUME NEW S \in SUBSET Nat, 0 \in S, \A n \in S : n + 1 \in S
  PROVE  S = Nat
<1> SUFFICES ASSUME Nat \ S # {} PROVE FALSE
  OBVIOUS
<1> DEFINE R == OpToRel(<, Nat)
<1>1. IsWellFoundedOn(R, Nat)
  BY NatLessThanWellFounded
<1>2. \A p : p \in R <=> p \in Nat \X Nat /\ p[1] < p[2]
  BY DEF OpToRel
<1> HIDE DEF R
<1>3. \E m \in Nat \ S : \A k \in Nat \ S : ~(<<k, m>> \in R)
  BY <1>1, WFMin
<1>4. PICK m \in Nat \ S : \A k \in Nat \ S : ~(k < m)
  BY <1>2, <1>3
<1>5. m # 0 /\ m - 1 \in Nat
  OBVIOUS
<1>6. m - 1 \in S
  BY <1>4, <1>5
<1> QED
  BY <1>5, <1>6

\* The member of a set the fold takes next.
Pick(s) == CHOOSE x \in s : TRUE

\* A set without one of its members is a smaller one.
LEMMA Smaller ==
  ASSUME NEW s \in SUBSET Key, s # {}
  PROVE  /\ Pick(s) \in s /\ Pick(s) \in Key
         /\ s \ {Pick(s)} \in SUBSET Key
         /\ IsFiniteSet(s) /\ Cardinality(s) \in Nat
         /\ Cardinality(s \ {Pick(s)}) \in Nat
         /\ Cardinality(s \ {Pick(s)}) = Cardinality(s) - 1
<1>1. Pick(s) \in s
  BY DEF Pick
<1>2. IsFiniteSet(s)
  BY CaptureConstants, FS_Subset
<1>3. IsFiniteSet(s \ {Pick(s)})
  BY <1>2, FS_Subset
<1>4. Cardinality(s \ {Pick(s)}) = Cardinality(s) - 1
  BY <1>1, <1>2, FS_RemoveElement
<1> QED
  BY <1>1, <1>2, <1>3, <1>4, FS_CardinalityType

\* Induction on the sets of conversations, a member at a time.
LEMMA SubsetInduction ==
  ASSUME NEW T \in SUBSET SUBSET Key, {} \in T,
         \A s \in SUBSET Key : s # {} /\ s \ {Pick(s)} \in T => s \in T
  PROVE  T = SUBSET Key
<1> DEFINE S == {n \in Nat : \A s \in SUBSET Key : Cardinality(s) <= n => s \in T}
<1>1. \A s \in SUBSET Key : IsFiniteSet(s) /\ Cardinality(s) \in Nat
  BY CaptureConstants, FS_Subset, FS_CardinalityType
<1>2. 0 \in S
  <2>1. \A s \in SUBSET Key : Cardinality(s) <= 0 => s = {}
    BY <1>1, FS_EmptySet
  <2> QED
    BY <2>1
<1>3. ASSUME NEW n \in S PROVE n + 1 \in S
  <2> SUFFICES ASSUME NEW s \in SUBSET Key, Cardinality(s) <= n + 1, s # {} PROVE s \in T
    OBVIOUS
  <2>1. s \ {Pick(s)} \in SUBSET Key /\ Cardinality(s \ {Pick(s)}) <= n
    BY Smaller
  <2> QED
    BY <2>1
<1> HIDE DEF S
<1>4. S = Nat
  BY <1>2, <1>3, SetInduction DEF S
<1> QED
  BY <1>1, <1>4 DEF S

\* The sums over every set of conversations, as the fold adds them up.
Adds(f, g) ==
  g = [s \in SUBSET Key |-> IF s = {} THEN 0 ELSE f[Pick(s)] + g[s \ {Pick(s)}]]

\* There are such sums, by induction on the size of the sets ...
LEMMA SumsExist ==
  ASSUME NEW f \in [Key -> Nat]
  PROVE  \E g : Adds(f, g)
<1> DEFINE Body(g, s) == IF s = {} THEN 0 ELSE f[Pick(s)] + g[s \ {Pick(s)}]
           Good(g, n) == \A s \in SUBSET Key : Cardinality(s) <= n => g[s] = Body(g, s)
           S == {n \in Nat : \E g \in [SUBSET Key -> Nat] : Good(g, n)}
<1>1. 0 \in S
  <2>1. \A s \in SUBSET Key : Cardinality(s) <= 0 => s = {}
    BY CaptureConstants, FS_Subset, FS_CardinalityType, FS_EmptySet
  <2>2. [s \in SUBSET Key |-> 0] \in [SUBSET Key -> Nat] /\ Good([s \in SUBSET Key |-> 0], 0)
    BY <2>1
  <2> QED
    BY <2>2
<1>2. ASSUME NEW n \in S PROVE n + 1 \in S
  <2>1. PICK g \in [SUBSET Key -> Nat] : Good(g, n)
    OBVIOUS
  <2> DEFINE h == [s \in SUBSET Key |-> Body(g, s)]
  <2>2. h \in [SUBSET Key -> Nat]
    <3>1. ASSUME NEW s \in SUBSET Key PROVE Body(g, s) \in Nat
      <4>1. CASE s # {}
        <5>1. f[Pick(s)] \in Nat /\ g[s \ {Pick(s)}] \in Nat
          BY <4>1, Smaller
        <5> QED
          BY <4>1, <5>1
      <4> QED
        BY <4>1
    <3> QED
      BY <3>1
  <2>3. ASSUME NEW s \in SUBSET Key, Cardinality(s) <= n + 1, s # {}
        PROVE  h[s] = Body(h, s)
    <3>1. s \ {Pick(s)} \in SUBSET Key /\ Cardinality(s \ {Pick(s)}) <= n
      BY <2>3, Smaller
    <3>2. g[s \ {Pick(s)}] = h[s \ {Pick(s)}]
      BY <2>1, <3>1
    <3> QED
      BY <2>3, <3>2
  <2>4. Good(h, n + 1)
    BY <2>3
  <2> HIDE DEF h, Good
  <2> QED
    BY <2>2, <2>4
<1> HIDE DEF S
<1>3. S = Nat
  BY <1>1, <1>2, SetInduction DEF S
<1>4. PICK g \in [SUBSET Key -> Nat] : Good(g, Cardinality(Key))
  <2>1. Cardinality(Key) \in S
    BY <1>3, CaptureConstants, FS_CardinalityType
  <2> QED
    BY <2>1 DEF S
<1>5. \A s \in SUBSET Key : Cardinality(s) <= Cardinality(Key)
  BY CaptureConstants, FS_Subset
<1> QED
  BY <1>4, <1>5 DEF Adds

\* ... and they are what the fold of Packets gives.
LEMMA SumsAre ==
  ASSUME NEW f \in [Key -> Nat]
  PROVE  \E g \in [SUBSET Key -> Nat] : Adds(f, g) /\ Packets(f) = g[Key]
<1> DEFINE iter == CHOOSE g : Adds(f, g)
<1>1. Packets(f) = iter[Key]
  BY DEF Packets, MapThenSumSet, MapThenFoldSet, Adds, Pick
<1>2. Adds(f, iter)
  BY SumsExist
<1> HIDE DEF iter
<1> DEFINE T == {s \in SUBSET Key : iter[s] \in Nat}
<1>3. T = SUBSET Key
  <2>1. {} \in T
    BY <1>2 DEF Adds
  <2>2. ASSUME NEW s \in SUBSET Key, s # {}, s \ {Pick(s)} \in T PROVE s \in T
    <3>1. iter[s] = f[Pick(s)] + iter[s \ {Pick(s)}]
      BY <1>2, <2>2 DEF Adds
    <3>2. f[Pick(s)] \in Nat /\ iter[s \ {Pick(s)}] \in Nat
      BY <2>2, Smaller
    <3> QED
      BY <3>1, <3>2
  <2>3. T \in SUBSET SUBSET Key
    OBVIOUS
  <2> HIDE DEF T
  <2> QED
    BY <2>1, <2>2, <2>3, SubsetInduction
<1>4. iter \in [SUBSET Key -> Nat]
  BY <1>2, <1>3 DEF Adds
<1> QED
  BY <1>1, <1>2, <1>4

\* The packets of all conversations are a number, not below those of any.
LEMMA PacketsType ==
  ASSUME NEW f \in [Key -> Nat]
  PROVE  Packets(f) \in Nat /\ \A k \in Key : f[k] <= Packets(f)
<1>1. PICK g \in [SUBSET Key -> Nat] : Adds(f, g) /\ Packets(f) = g[Key]
  BY SumsAre
<1> DEFINE T == {s \in SUBSET Key : \A k \in s : f[k] <= g[s]}
<1>2. T = SUBSET Key
  <2>1. {} \in T
    OBVIOUS
  <2>2. ASSUME NEW s \in SUBSET Key, s # {}, s \ {Pick(s)} \in T PROVE s \in T
    <3>1. g[s] = f[Pick(s)] + g[s \ {Pick(s)}] /\ s \ {Pick(s)} \in SUBSET Key /\ Pick(s) \in Key
      BY <1>1, <2>2, Smaller DEF Adds
    <3>2. f[Pick(s)] \in Nat /\ g[s \ {Pick(s)}] \in Nat
      BY <3>1
    <3> QED
      BY <2>2, <3>1, <3>2
  <2>3. T \in SUBSET SUBSET Key
    OBVIOUS
  <2> HIDE DEF T
  <2> QED
    BY <2>1, <2>2, <2>3, SubsetInduction
<1> QED
  BY <1>1, <1>2

\* No conversation has a packet: there is none.
LEMMA PacketsOfNone == Packets(Zero) = 0
<1> DEFINE f == [k \in Key |-> 0]
<1>1. PICK g \in [SUBSET Key -> Nat] : Adds(f, g) /\ Packets(f) = g[Key]
  BY SumsAre
<1> DEFINE T == {s \in SUBSET Key : g[s] = 0}
<1>2. T = SUBSET Key
  <2>1. {} \in T
    BY <1>1 DEF Adds
  <2>2. ASSUME NEW s \in SUBSET Key, s # {}, s \ {Pick(s)} \in T PROVE s \in T
    <3>1. g[s] = f[Pick(s)] + g[s \ {Pick(s)}]
      BY <1>1, <2>2 DEF Adds
    <3>2. f[Pick(s)] = 0 /\ g[s \ {Pick(s)}] = 0
      BY <2>2, Smaller
    <3> QED
      BY <3>1, <3>2
  <2>3. T \in SUBSET SUBSET Key
    OBVIOUS
  <2> HIDE DEF T
  <2> QED
    BY <2>1, <2>2, <2>3, SubsetInduction
<1> QED
  BY <1>1, <1>2 DEF Zero

\* One more packet of a conversation is one more of all.
LEMMA PacketsOfOneMore ==
  ASSUME NEW f \in [Key -> Nat], NEW k \in Key
  PROVE  Packets([f EXCEPT ![k] = @ + 1]) = Packets(f) + 1
<1> DEFINE f2 == [f EXCEPT ![k] = @ + 1]
<1>1. PICK g \in [SUBSET Key -> Nat] : Adds(f, g) /\ Packets(f) = g[Key]
  BY SumsAre
<1>2. f2 \in [Key -> Nat] /\ f2[k] = f[k] + 1 /\ \A j \in Key \ {k} : f2[j] = f[j]
  OBVIOUS
<1> HIDE DEF f2
<1>3. PICK h \in [SUBSET Key -> Nat] : Adds(f2, h) /\ Packets(f2) = h[Key]
  BY <1>2, SumsAre
<1> DEFINE T == {s \in SUBSET Key : h[s] = g[s] + (IF k \in s THEN 1 ELSE 0)}
<1>4. T = SUBSET Key
  <2>1. {} \in T
    BY <1>1, <1>3 DEF Adds
  <2>2. ASSUME NEW s \in SUBSET Key, s # {}, s \ {Pick(s)} \in T PROVE s \in T
    <3> DEFINE t == s \ {Pick(s)}
    <3>1. t \in SUBSET Key /\ Pick(s) \in Key /\ Pick(s) \in s
      BY <2>2, Smaller
    <3>2. g[s] = f[Pick(s)] + g[t] /\ h[s] = f2[Pick(s)] + h[t]
      BY <1>1, <1>3, <2>2 DEF Adds
    <3>3. h[t] = g[t] + (IF k \in t THEN 1 ELSE 0)
      BY <2>2
    <3>4. g[t] \in Nat /\ f[Pick(s)] \in Nat
      BY <3>1
    <3>5. CASE Pick(s) = k
      BY <1>2, <3>1, <3>2, <3>3, <3>4, <3>5
    <3>6. CASE Pick(s) # k
      BY <1>2, <3>1, <3>2, <3>3, <3>4, <3>6
    <3> QED
      BY <3>5, <3>6
  <2>3. T \in SUBSET SUBSET Key
    OBVIOUS
  <2> HIDE DEF T
  <2> QED
    BY <2>1, <2>2, <2>3, SubsetInduction
<1> QED
  BY <1>1, <1>3, <1>4 DEF f2

-----------------------------------------------------------------------------
(* The inductive invariant of the capture.                                 *)

\* A packet is in hand from when it is counted until it is kept.
InHand == packet \in Key <=> thread \in {"counted", "aggregated"}

\* Every packet of a conversation has been counted before.
Counting == total >= Packets(convs) + (IF thread = "counted" THEN 1 ELSE 0)

\* The packet in hand is the only one its conversation has and does not keep.
Waiting(k) == IF thread = "aggregated" /\ packet = k THEN 1 ELSE 0

Storing == \A k \in Key : convs[k] >= Waiting(k) /\ stored[k] = Kept(convs[k] - Waiting(k))

\* No conversation has lost more than one packet, but for those its ring has dropped.
Near(count, kept) == \A k \in Key : count[k] > 0 => kept[k] >= Kept(count[k] - 1)

\* What has been copied agrees with what will be, as counts only grow meanwhile.
CopiesAgree ==
  /\ copy.step # "none" => Packets(copy.convs) <= total
  /\ copy.step = "convs" => Near(copy.convs, stored)
  /\ copy.step = "packets" => Near(copy.convs, copy.stored)

CapInv == CapTypeOK /\ InHand /\ Counting /\ Storing /\ CopiesAgree /\ SessionsConsistent

-----------------------------------------------------------------------------
\* At first there is no packet.
LEMMA InitCapInv == CapInit => CapInv
<1> SUFFICES ASSUME CapInit PROVE CapInv
  OBVIOUS
<1>1. Zero \in Counts /\ Zero \in [Key -> 0..MaxPkts]
  BY CaptureConstants DEF Zero, Counts
<1>2. Cardinality({k \in Key : convs[k] > 0}) <= MaxConvs
  <2>1. {k \in Key : convs[k] > 0} = {}
    BY DEF CapInit, Zero
  <2> QED
    BY <2>1, FS_EmptySet, CaptureConstants
<1>3. CapTypeOK
  <2>1. copy \in [step : {"none", "convs", "packets"}, convs : Counts, stored : [Key -> 0..MaxPkts]]
    BY <1>1 DEF CapInit, NoCopy
  <2>2. sessions \in Seq([total : 0..MaxPackets, convs : Counts, stored : [Key -> 0..MaxPkts]])
    BY DEF CapInit
  <2>3. /\ capture \in BOOLEAN /\ thread = "off" /\ packet = NoKey /\ owned = {}
        /\ convs \in Counts /\ stored \in [Key -> 0..MaxPkts]
    BY <1>1 DEF CapInit
  <2>4. total \in 0..MaxPackets /\ chosen \in Nat /\ started \in 0..MaxCaptures
    BY CaptureConstants DEF CapInit
  <2> QED
    BY <1>2, <2>1, <2>2, <2>3, <2>4 DEF CapTypeOK
<1>4. InHand /\ Counting
  BY PacketsOfNone, CaptureConstants DEF CapInit, InHand, Counting
<1>5. Storing
  BY CaptureConstants DEF CapInit, Storing, Waiting, Kept, Zero
<1>6. CopiesAgree /\ SessionsConsistent
  BY DEF CapInit, CopiesAgree, SessionsConsistent, NoCopy
<1> QED
  BY <1>3, <1>4, <1>5, <1>6 DEF CapInv

\* A packet is counted: that allows its conversation one more.
LEMMA CountsKeep ==
  ASSUME CapInv, NEW k \in Key, IngestCounts(k)
  PROVE  CapInv'
<1> USE DEF CapInv, shared, saved
<1>1. CapTypeOK'
  BY CaptureConstants DEF CapTypeOK, IngestCounts
<1>2. InHand'
  BY DEF InHand, IngestCounts
<1>3. Packets(convs) \in Nat /\ total \in Nat
  BY PacketsType DEF CapTypeOK, Counts
<1>4. Counting'
  BY <1>3 DEF Counting, IngestCounts
<1>5. Storing'
  BY DEF Storing, Waiting, IngestCounts
<1>6. Packets(copy.convs) \in Nat
  BY PacketsType DEF CapTypeOK, Counts
<1>7. CopiesAgree'
  BY <1>3, <1>6 DEF CopiesAgree, Near, IngestCounts
<1>8. SessionsConsistent'
  BY DEF SessionsConsistent, IngestCounts
<1> QED
  BY <1>1, <1>2, <1>4, <1>5, <1>7, <1>8

\* It is put in its conversation, a new one if there is room, or dropped.
LEMMA AggregatesKeep ==
  ASSUME CapInv, IngestAggregates
  PROVE  CapInv'
<1> USE DEF CapInv, shared, saved
<1>1. packet \in Key /\ thread = "counted"
  BY DEF InHand, IngestAggregates
<1>2. convs \in [Key -> Nat] /\ Packets(convs) \in Nat /\ total \in Nat /\ total <= MaxPackets
  BY PacketsType, CaptureConstants DEF CapTypeOK, Counts
<1>3. UNCHANGED <<capture, total, stored, copy, sessions, chosen, started>>
  BY DEF IngestAggregates
<1>4. CopiesAgree' /\ SessionsConsistent'
  BY <1>3 DEF CopiesAgree, Near, SessionsConsistent
<1>5. CASE UNCHANGED <<convs, owned>> /\ thread' = "recv" /\ packet' = NoKey
  <2>1. CapTypeOK'
    BY <1>3, <1>5 DEF CapTypeOK
  <2>2. InHand' /\ Counting'
    BY <1>2, <1>3, <1>5, CaptureConstants DEF InHand, Counting
  <2>3. Storing'
    BY <1>1, <1>3, <1>5 DEF Storing, Waiting
  <2> QED
    BY <1>4, <2>1, <2>2, <2>3
<1>6. CASE /\ convs[packet] > 0 \/ Cardinality({k \in Key : convs[k] > 0}) < MaxConvs
           /\ convs' = [convs EXCEPT ![packet] = @ + 1]
           /\ owned' \in Attributed(packet)
           /\ thread' = "aggregated" /\ UNCHANGED packet
  <2>1. convs' \in [Key -> Nat] /\ Packets(convs') = Packets(convs) + 1
    <3>1. [convs EXCEPT ![packet] = @ + 1] \in [Key -> Nat]
      BY <1>1, <1>2
    <3>2. Packets([convs EXCEPT ![packet] = @ + 1]) = Packets(convs) + 1
      BY <1>1, <1>2, PacketsOfOneMore
    <3> QED
      BY <1>6, <3>1, <3>2
  <2>2. Packets(convs') <= total
    BY <1>1, <1>2, <2>1 DEF Counting
  <2>3. convs' \in Counts
    <3>1. \A k \in Key : convs'[k] \in Nat /\ convs'[k] <= Packets(convs')
      BY <2>1, PacketsType
    <3>2. \A k \in Key : convs'[k] \in 0..MaxPackets
      BY <1>2, <2>1, <2>2, <3>1, CaptureConstants
    <3> QED
      BY <2>1, <3>2 DEF Counts
  <2>4. Cardinality({k \in Key : convs'[k] > 0}) <= MaxConvs
    <3> DEFINE K == {k \in Key : convs[k] > 0}
    <3>1. {k \in Key : convs'[k] > 0} = K \cup {packet}
      BY <1>1, <1>2, <1>6
    <3>2. IsFiniteSet(K) /\ Cardinality(K) \in Nat /\ Cardinality(K) <= MaxConvs
      BY CaptureConstants, FS_Subset, FS_CardinalityType DEF CapTypeOK
    <3>3. Cardinality(K \cup {packet}) = IF packet \in K THEN Cardinality(K) ELSE Cardinality(K) + 1
      BY <3>2, FS_AddElement
    <3>4. packet \in K \/ Cardinality(K) < MaxConvs
      BY <1>1, <1>6
    <3> HIDE DEF K
    <3> QED
      BY <3>1, <3>2, <3>3, <3>4, CaptureConstants
  <2>5. owned' \subseteq Key
    BY <1>1, <1>6 DEF CapTypeOK, Attributed
  <2>6. CapTypeOK'
    BY <1>3, <1>6, <2>3, <2>4, <2>5 DEF CapTypeOK
  <2>7. InHand'
    BY <1>1, <1>6 DEF InHand
  <2>8. Counting'
    BY <1>2, <1>3, <1>6, <2>1, <2>2 DEF Counting
  <2>9. Storing'
    BY <1>1, <1>2, <1>3, <1>6 DEF Storing, Waiting
  <2> QED
    BY <1>4, <2>6, <2>7, <2>8, <2>9
<1> QED
  BY <1>5, <1>6 DEF IngestAggregates

\* It is kept, in place of the oldest when the ring is full.
LEMMA StoresKeep ==
  ASSUME CapInv, IngestStores
  PROVE  CapInv'
<1> USE DEF CapInv, shared, saved
<1>1. packet \in Key /\ thread = "aggregated"
  BY DEF InHand, IngestStores
<1>2. /\ stored' = [stored EXCEPT ![packet] = RingPushed(@)]
      /\ thread' = "recv" /\ packet' = NoKey
      /\ UNCHANGED <<capture, total, convs, owned, copy, sessions, chosen, started>>
  BY DEF IngestStores
<1>3. convs \in [Key -> Nat] /\ stored \in [Key -> 0..MaxPkts]
  BY CaptureConstants DEF CapTypeOK, Counts
<1>4. stored' \in [Key -> 0..MaxPkts]
  <2>1. RingPushed(stored[packet]) \in 0..MaxPkts
    BY <1>1, <1>3, CaptureConstants DEF RingPushed
  <2> QED
    BY <1>2, <1>3, <2>1
<1>5. CapTypeOK'
  BY <1>2, <1>4 DEF CapTypeOK
<1>6. InHand' /\ Counting'
  BY <1>1, <1>2, CaptureConstants DEF InHand, Counting
<1>7. Storing'
  <2>1. ASSUME NEW k \in Key PROVE stored'[k] = Kept(convs[k])
    <3>1. CASE k = packet
      BY <1>1, <1>2, <1>3, <3>1, CaptureConstants DEF Storing, Waiting, RingPushed, Kept
    <3>2. CASE k # packet
      BY <1>1, <1>2, <1>3, <3>2 DEF Storing, Waiting
    <3> QED
      BY <3>1, <3>2
  <2> QED
    BY <1>2, <1>3, <2>1 DEF Storing, Waiting
<1>8. \A k \in Key : stored'[k] >= stored[k]
  BY <1>1, <1>2, <1>3, CaptureConstants DEF RingPushed
<1>9. CopiesAgree'
  <2>1. copy.convs \in [Key -> Nat]
    BY CaptureConstants DEF CapTypeOK, Counts
  <2>2. copy.step = "convs" => Near(copy.convs, stored)'
    BY <1>2, <1>3, <1>4, <1>8, <2>1, CaptureConstants DEF CopiesAgree, Near, Kept
  <2> QED
    BY <1>2, <2>2 DEF CopiesAgree, Near
<1>10. SessionsConsistent'
  BY <1>2 DEF SessionsConsistent
<1> QED
  BY <1>5, <1>6, <1>7, <1>9, <1>10

-----------------------------------------------------------------------------
\* A capture starts with nothing counted.
LEMMA StartCaptureKeeps ==
  ASSUME CapInv, StartCapture \/ CaptureFails
  PROVE  CapInv'
<1> USE DEF CapInv, shared, saved
<1>1. CASE CaptureFails
  <2>1. thread = "recv" /\ thread' = "ended"
        /\ UNCHANGED <<capture, packet, total, convs, stored, owned, copy, sessions, chosen, started>>
    BY <1>1 DEF CaptureFails
  <2> QED
    BY <2>1 DEF CapTypeOK, InHand, Counting, Storing, Waiting, CopiesAgree, Near, SessionsConsistent
<1>2. CASE StartCapture
  <2>1. /\ copy.step = "none" /\ capture' = TRUE /\ thread' = "recv" /\ packet' = NoKey
        /\ total' = 0 /\ convs' = Zero /\ stored' = Zero /\ owned' = {}
        /\ chosen' = 0 /\ started' \in 0..MaxCaptures
        /\ UNCHANGED <<copy, sessions>>
    BY <1>2, CaptureConstants DEF StartCapture, CapTypeOK
  <2>2. Zero \in Counts /\ Zero \in [Key -> 0..MaxPkts]
    BY CaptureConstants DEF Zero, Counts
  <2>3. Cardinality({k \in Key : convs'[k] > 0}) <= MaxConvs
    <3>1. {k \in Key : convs'[k] > 0} = {}
      BY <2>1 DEF Zero
    <3> QED
      BY <3>1, FS_EmptySet, CaptureConstants
  <2>4. CapTypeOK'
    BY <2>1, <2>2, <2>3, CaptureConstants DEF CapTypeOK
  <2>5. InHand' /\ Counting'
    BY <2>1, PacketsOfNone, CaptureConstants DEF InHand, Counting
  <2>6. Storing'
    BY <2>1, CaptureConstants DEF Storing, Waiting, Kept, Zero
  <2>7. CopiesAgree' /\ SessionsConsistent'
    BY <2>1 DEF CopiesAgree, SessionsConsistent
  <2> QED
    BY <2>4, <2>5, <2>6, <2>7
<1> QED
  BY <1>1, <1>2

\* The copies are made one after the other, packets coming in between.
LEMMA CopiesKeep ==
  ASSUME CapInv, CopyConvs \/ CopyPackets
  PROVE  CapInv'
<1> USE DEF CapInv, shared, saved
<1>1. Zero \in [Key -> 0..MaxPkts]
  BY CaptureConstants DEF Zero
<1>2. /\ capture' \in BOOLEAN
      /\ UNCHANGED <<thread, packet, total, convs, stored, owned, sessions, chosen, started>>
  BY DEF CopyConvs, CopyPackets, CapTypeOK
<1>3. InHand' /\ Counting' /\ Storing' /\ SessionsConsistent'
  BY <1>2 DEF InHand, Counting, Storing, Waiting, SessionsConsistent
<1>4. CASE CopyConvs
  <2>1. copy' = [step |-> "convs", convs |-> convs, stored |-> Zero]
    BY <1>4 DEF CopyConvs
  <2>2. CapTypeOK'
    BY <1>1, <1>2, <2>1 DEF CapTypeOK
  <2>3. Packets(convs) <= total
    <3>1. Packets(convs) \in Nat /\ total \in Nat
      BY PacketsType, CaptureConstants DEF CapTypeOK, Counts
    <3> QED
      BY <3>1 DEF Counting
  <2>4. Near(convs, stored)
    <3> SUFFICES ASSUME NEW k \in Key, convs[k] > 0 PROVE stored[k] >= Kept(convs[k] - 1)
      BY DEF Near
    <3>1. convs[k] \in Nat /\ Waiting(k) \in {0, 1} /\ stored[k] = Kept(convs[k] - Waiting(k))
      BY CaptureConstants DEF CapTypeOK, Counts, Storing, Waiting
    <3> QED
      BY <3>1, CaptureConstants DEF Kept
  <2>5. CopiesAgree'
    BY <1>2, <2>1, <2>3, <2>4 DEF CopiesAgree, Near
  <2> QED
    BY <1>3, <2>2, <2>5
<1>5. CASE CopyPackets
  <2>1. copy.step = "convs" /\ copy' = [copy EXCEPT !.step = "packets", !.stored = stored]
    BY <1>5 DEF CopyPackets
  <2>2. copy' = [step |-> "packets", convs |-> copy.convs, stored |-> stored]
    BY <2>1 DEF CapTypeOK
  <2>3. CapTypeOK'
    BY <1>2, <2>2 DEF CapTypeOK
  <2>4. CopiesAgree'
    BY <1>2, <2>1, <2>2 DEF CopiesAgree, Near
  <2> QED
    BY <1>3, <2>3, <2>4
<1> QED
  BY <1>4, <1>5

\* The session is saved, and its capture is over.
LEMMA SaveKeeps ==
  ASSUME CapInv, SaveSession
  PROVE  CapInv'
<1> USE DEF CapInv, shared, saved
<1> DEFINE s == [total |-> total, convs |-> copy.convs, stored |-> copy.stored]
           Session == [total : 0..MaxPackets, convs : Counts, stored : [Key -> 0..MaxPkts]]
<1>1. /\ copy.step = "packets" /\ sessions' = Append(sessions, s) /\ chosen' = Len(sessions) + 1
      /\ copy' = NoCopy /\ thread' = "off" /\ packet' = NoKey
      /\ total' = 0 /\ convs' = Zero /\ stored' = Zero /\ owned' = {}
      /\ UNCHANGED <<capture, started>>
  BY DEF SaveSession
<1>2. s \in Session /\ sessions \in Seq(Session)
  BY DEF CapTypeOK
<1>3. Zero \in Counts /\ Zero \in [Key -> 0..MaxPkts]
  BY CaptureConstants DEF Zero, Counts
<1>4. Cardinality({k \in Key : convs'[k] > 0}) <= MaxConvs
  <2>1. {k \in Key : convs'[k] > 0} = {}
    BY <1>1 DEF Zero
  <2> QED
    BY <2>1, FS_EmptySet, CaptureConstants
<1>5. sessions' \in Seq(Session) /\ chosen' \in Nat
  <2> HIDE DEF s, Session
  <2> QED
    BY <1>1, <1>2
<1>6. CapTypeOK'
  BY <1>1, <1>3, <1>4, <1>5, CaptureConstants DEF CapTypeOK, NoCopy
<1>7. InHand' /\ Counting'
  BY <1>1, PacketsOfNone, CaptureConstants DEF InHand, Counting
<1>8. Storing'
  BY <1>1, CaptureConstants DEF Storing, Waiting, Kept, Zero
<1>9. CopiesAgree'
  BY <1>1 DEF CopiesAgree, NoCopy
<1>10. SessionsConsistent'
  <2>1. s.total >= Packets(s.convs) /\ Near(s.convs, s.stored)
    <3>1. Packets(copy.convs) \in Nat /\ total \in Nat
      BY PacketsType, CaptureConstants DEF CapTypeOK, Counts
    <3> QED
      BY <1>1, <3>1 DEF CopiesAgree
  <2>2. ASSUME NEW i \in DOMAIN sessions'
        PROVE  sessions'[i] = s \/ (i \in DOMAIN sessions /\ sessions'[i] = sessions[i])
    <3> HIDE DEF s, Session
    <3> QED
      BY <1>1, <1>2, <2>2
  <2> HIDE DEF s
  <2> QED
    BY <2>1, <2>2 DEF SessionsConsistent, Near
<1> QED
  BY <1>6, <1>7, <1>8, <1>9, <1>10

\* A saved session stays what it is, whichever is looked at or removed.
LEMMA ListKeeps ==
  ASSUME CapInv,
         RemoveSession \/ \E i \in DOMAIN sessions \cup (IF capture THEN {0} ELSE {}) : Choose(i)
  PROVE  CapInv'
<1> USE DEF CapInv, shared, saved
<1> DEFINE Session == [total : 0..MaxPackets, convs : Counts, stored : [Key -> 0..MaxPkts]]
<1>1. sessions \in Seq(Session)
  BY DEF CapTypeOK
<1>2. UNCHANGED <<capture, thread, packet, total, convs, stored, owned, copy, started>>
  BY DEF RemoveSession, Choose
<1>3. InHand' /\ Counting' /\ Storing' /\ CopiesAgree'
  BY <1>2 DEF InHand, Counting, Storing, Waiting, CopiesAgree, Near
<1>4. /\ sessions' \in Seq(Session) /\ chosen' \in Nat
      /\ \A i \in DOMAIN sessions' : \E j \in DOMAIN sessions : sessions'[i] = sessions[j]
  <2>1. CASE \E i \in DOMAIN sessions \cup (IF capture THEN {0} ELSE {}) : Choose(i)
    <3>1. UNCHANGED sessions /\ chosen' \in DOMAIN sessions \cup {0}
      BY <2>1 DEF Choose
    <3> HIDE DEF Session
    <3> QED
      BY <1>1, <3>1
  <2>2. CASE RemoveSession
    <3>1. /\ chosen \in DOMAIN sessions /\ chosen' = 0
          /\ sessions' = SubSeq(sessions, 1, chosen - 1) \o SubSeq(sessions, chosen + 1, Len(sessions))
      BY <2>2 DEF RemoveSession
    <3> HIDE DEF Session
    <3>2. chosen \in 1..Len(sessions) /\ Len(sessions) \in Nat
      BY <1>1, <3>1
    <3>3. /\ SubSeq(sessions, 1, chosen - 1) \in Seq(Session)
          /\ Len(SubSeq(sessions, 1, chosen - 1)) = chosen - 1
          /\ \A i \in 1..(chosen - 1) : SubSeq(sessions, 1, chosen - 1)[i] = sessions[i]
      BY <1>1, <3>2
    <3>4. /\ SubSeq(sessions, chosen + 1, Len(sessions)) \in Seq(Session)
          /\ Len(SubSeq(sessions, chosen + 1, Len(sessions))) = Len(sessions) - chosen
          /\ \A i \in 1..(Len(sessions) - chosen) :
               SubSeq(sessions, chosen + 1, Len(sessions))[i] = sessions[chosen + i]
      BY <1>1, <3>2
    <3> DEFINE before == SubSeq(sessions, 1, chosen - 1)
               after  == SubSeq(sessions, chosen + 1, Len(sessions))
    <3> HIDE DEF before, after
    <3>5. sessions' \in Seq(Session)
      BY <3>1, <3>3, <3>4 DEF before, after
    <3>6. ASSUME NEW i \in DOMAIN sessions' PROVE \E j \in DOMAIN sessions : sessions'[i] = sessions[j]
      <4>1. /\ sessions' = before \o after /\ before \in Seq(Session) /\ after \in Seq(Session)
            /\ Len(before) = chosen - 1 /\ Len(after) = Len(sessions) - chosen
        BY <3>1, <3>3, <3>4 DEF before, after
      <4>2. i \in 1..(Len(sessions) - 1)
        BY <3>2, <3>6, <4>1
      <4>3. CASE i < chosen
        <5>1. sessions'[i] = before[i] /\ i \in 1..(chosen - 1)
          BY <3>2, <4>1, <4>2, <4>3
        <5>2. before[i] = sessions[i]
          BY <3>3, <5>1 DEF before
        <5> QED
          BY <1>1, <3>2, <4>2, <5>1, <5>2
      <4>4. CASE i >= chosen
        <5>1. sessions'[i] = after[i - (chosen - 1)] /\ i - (chosen - 1) \in 1..(Len(sessions) - chosen)
          BY <3>2, <4>1, <4>2, <4>4
        <5>2. after[i - (chosen - 1)] = sessions[chosen + (i - (chosen - 1))]
          BY <3>4, <5>1 DEF after
        <5>3. chosen + (i - (chosen - 1)) \in DOMAIN sessions
          BY <1>1, <3>2, <5>1
        <5> QED
          BY <5>1, <5>2, <5>3
      <4> QED
        BY <3>2, <4>2, <4>3, <4>4
    <3> QED
      BY <3>1, <3>5, <3>6
  <2> QED
    BY <2>1, <2>2
<1>5. CapTypeOK'
  BY <1>2, <1>4 DEF CapTypeOK
<1>6. SessionsConsistent'
  BY <1>4 DEF SessionsConsistent
<1> QED
  BY <1>3, <1>5, <1>6

-----------------------------------------------------------------------------
LEMMA NextCapInv == CapInv /\ [CapNext]_capVars => CapInv'
<1> SUFFICES ASSUME CapInv, [CapNext]_capVars PROVE CapInv'
  OBVIOUS
<1>1. CASE UNCHANGED capVars
  BY <1>1 DEF capVars, shared, saved, CapInv, CapTypeOK, InHand, Counting, Storing, Waiting,
     CopiesAgree, Near, SessionsConsistent
<1> QED
  BY <1>1, CountsKeep, AggregatesKeep, StoresKeep, StartCaptureKeeps, CopiesKeep, SaveKeeps,
     ListKeeps DEF CapNext

\* The invariant holds of any capture, whenever it is stopped and saved.
LEMMA CaptureInvariance == CapSpec => []CapInv
  BY InitCapInv, NextCapInv, PTL DEF CapSpec

\* The counts of a capture keep their types and its conversations their limit (ingest).
THEOREM CaptureTypes == CapSpec => []CapTypeOK
<1>1. CapInv => CapTypeOK
  BY DEF CapInv
<1> QED
  BY <1>1, CaptureInvariance, PTL

\* A saved session never counts fewer packets than its conversations have, nor keeps fewer
\* than all but one of a conversation's (or a full ring), however many packets come in
\* between the three copies (snapshot_session): for any conversations and limits.
THEOREM SavedSessionsAgree == CapSpec => []SessionsConsistent
<1>1. CapInv => SessionsConsistent
  BY DEF CapInv
<1> QED
  BY <1>1, CaptureInvariance, PTL

=============================================================================
