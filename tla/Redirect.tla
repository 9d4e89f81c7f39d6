------------------------------ MODULE Redirect -------------------------------
(***************************************************************************)
(* The transparent redirection of a process's connections: a thread that   *)
(* learns which local ports the target has (tcp_ports_for_pid, once a      *)
(* second), a thread that takes every outgoing packet from the driver,     *)
(* rewrites it and puts it back (divert_loop, rewrite_packet), a listener  *)
(* that accepts what was rewritten (spawn_listener) and two threads per    *)
(* connection that copy bytes between it and its real server (bridge).     *)
(* Dropping the handle sets one flag, which each of them polls.            *)
(*                                                                         *)
(* The driver and TCP are what the code expects of them: packets come in   *)
(* the order they were sent, a packet for nobody is answered by a reset, a *)
(* port is given again only after its connection is closed.                *)
(***************************************************************************)
EXTENDS Naturals, Sequences

CONSTANTS
  Conn,      (* connections processes open                                 *)
  Port,      (* local ports                                                *)
  Target,    (* the connections of the target process                      *)
  Server,    (* the destination of each connection                         *)
  MaxWire,   (* bound on packets the driver holds                          *)
  Nobody     (* no port, no destination                                    *)

VARIABLES
  stop,      (* the flag the handle's Drop sets                            *)
  refresher, (* the thread that reads the target's ports                   *)
  seen,      (* what it read and has not published yet                     *)
  ports,     (* target_ports                                               *)
  divert,    (* the thread that rewrites packets                           *)
  wire,      (* packets the driver holds, oldest first                     *)
  nat,       (* NatMap: destination kept for each client port              *)
  listener,  (* the accept loop, and with it the listening socket          *)
  conn,      (* each connection, as its process sees it                    *)
  port,      (* its local port                                             *)
  bridge,    (* the bridge of an accepted connection                       *)
  pump,      (* where its two copying threads stand                        *)
  dest,      (* the server they copy to                                    *)
  late       (* history: packets rewritten after the flag, up to two       *)

sockets == <<conn, port, bridge, pump, dest>>
rdVars == <<stop, refresher, seen, ports, divert, wire, nat, listener, sockets, late>>

Servers == {Server[c] : c \in Conn}
Open    == {"connecting", "backlog", "direct", "redirected"}
Way     == {"up", "down"}

RdTypeOK ==
  /\ stop \in BOOLEAN
  /\ refresher \in {"check", "publish", "ended"} /\ seen \subseteq Port /\ ports \subseteq Port
  /\ divert \in {"opening", "check", "recv", "ended"}
  /\ wire \in Seq(Conn)
  /\ nat \in [Port -> Servers \cup {Nobody}]
  /\ listener \in {"listening", "ended"}
  /\ conn \in [Conn -> Open \cup {"unused", "closed"}]
  /\ port \in [Conn -> Port \cup {Nobody}]
  /\ bridge \in [Conn -> {"none", "connecting", "copying", "ended"}]
  /\ pump \in [Conn -> [Way -> {"off", "read", "write"}]]
  /\ dest \in [Conn -> Servers \cup {Nobody}]
  /\ late \in 0..2

\* start, when the DLL is there and the port is free. Some connections of the
\* target may be older than the redirection; their ports are known at once.
RdInit ==
  /\ stop = FALSE /\ refresher = "check" /\ seen = {}
  /\ divert = "opening" /\ listener = "listening" /\ wire = <<>> /\ late = 0
  /\ nat = [p \in Port |-> Nobody]
  /\ bridge = [c \in Conn |-> "none"] /\ pump = [c \in Conn |-> [d \in Way |-> "off"]]
  /\ dest = [c \in Conn |-> Nobody]
  /\ \/ /\ conn = [c \in Conn |-> "unused"] /\ port = [c \in Conn |-> Nobody]
        /\ ports = {}
     \/ \E c \in Target, p \in Port :
          /\ conn = [d \in Conn |-> IF d = c THEN "direct" ELSE "unused"]
          /\ port = [d \in Conn |-> IF d = c THEN p ELSE Nobody]
          /\ ports = {p}

InUse == {port[c] : c \in {c \in Conn : conn[c] \in Open}}

-----------------------------------------------------------------------------
(* The refresher.                                                          *)

\* The table of the system may not be readable, which counts as no port.
RefresherReads ==
  /\ refresher = "check"
  /\ IF stop
     THEN refresher' = "ended" /\ seen' = {}
     ELSE /\ refresher' = "publish"
          /\ seen' \in {{}, {port[c] : c \in {c \in Target : conn[c] \in Open}}}
  /\ UNCHANGED <<stop, ports, divert, wire, nat, listener, sockets, late>>

RefresherPublishes ==
  /\ refresher = "publish"
  /\ refresher' = "check" /\ ports' = seen /\ seen' = {}
  /\ UNCHANGED <<stop, divert, wire, nat, listener, sockets, late>>

-----------------------------------------------------------------------------
(* The driver's thread.                                                    *)

\* WinDivertOpen
DivertOpens ==
  /\ divert = "opening"
  /\ \/ divert' = "check" /\ UNCHANGED stop
     \/ divert' = "ended" /\ stop' = TRUE
  /\ UNCHANGED <<refresher, seen, ports, wire, nat, listener, sockets, late>>

\* A plausible bug: an error of recv and a packet both start the loop again
\* without a look at the flag.
DivertNeverChecks ==
  /\ divert = "check"
  /\ divert' = "recv"
  /\ UNCHANGED <<stop, refresher, seen, ports, wire, nat, listener, sockets, late>>

DivertChecks ==
  /\ divert = "check"
  /\ divert' = IF stop THEN "ended" ELSE "recv"
  /\ UNCHANGED <<stop, refresher, seen, ports, wire, nat, listener, sockets, late>>

\* A plausible bug: an entry of the map is made once and kept.
NatFirst(p, s) == [nat EXCEPT ![p] = IF @ = Nobody THEN s ELSE @]

\* "guarda o destino real"
NatInsert(p, s) == [nat EXCEPT ![p] = s]

\* A packet reaches the listener: the first one of a connection is queued there,
\* one of a connection the listener does not know is answered by a reset.
ToListener(c) ==
  conn' = [conn EXCEPT ![c] =
             CASE @ = "connecting" -> IF listener = "listening" THEN "backlog" ELSE "closed"
               [] @ = "direct"     -> "closed"
               [] OTHER            -> @]

\* A packet goes its own way: to the server, which knows nothing of a
\* connection that was redirected.
ToServer(c) ==
  conn' = [conn EXCEPT ![c] =
             CASE @ = "connecting" -> "direct"
               [] @ \in {"backlog", "redirected"} -> "closed"
               [] OTHER -> @]

\* rewrite_packet for an outgoing packet; a closed connection's still counts.
DivertRewrites ==
  /\ divert = "recv" /\ wire # <<>>
  /\ divert' = "check" /\ wire' = Tail(wire)
  /\ LET c == Head(wire)
         p == port[c]
     IN IF p \in ports
        THEN /\ nat' = NatInsert(p, Server[c])
             /\ late' = IF stop /\ late < 2 THEN late + 1 ELSE late
             /\ ToListener(c)
        ELSE UNCHANGED <<nat, late>> /\ ToServer(c)
  /\ UNCHANGED <<stop, refresher, seen, ports, listener, port, bridge, pump, dest>>

\* Without an open handle nothing is taken from the wire.
Undiverted ==
  /\ divert \in {"opening", "ended"} /\ wire # <<>>
  /\ wire' = Tail(wire)
  /\ ToServer(Head(wire))
  /\ UNCHANGED <<stop, refresher, seen, ports, divert, nat, listener, port, bridge, pump, dest, late>>

-----------------------------------------------------------------------------
(* The listener and the bridges.                                           *)

ListenerEnds ==
  /\ listener = "listening" /\ stop
  /\ listener' = "ended"
  /\ conn' = [c \in Conn |-> IF conn[c] = "backlog" THEN "closed" ELSE conn[c]]
  /\ UNCHANGED <<stop, refresher, seen, ports, divert, wire, nat, port, bridge, pump, dest, late>>

\* The destination is looked up by the client's port. The flag was read before
\* accept. (One whose process has left by then is copied for nobody.)
ListenerAccepts(c) ==
  /\ listener = "listening" /\ conn[c] = "backlog" /\ bridge[c] = "none"
  /\ IF nat[port[c]] = Nobody
     THEN conn' = [conn EXCEPT ![c] = "closed"] /\ UNCHANGED <<bridge, dest>>
     ELSE /\ conn' = [conn EXCEPT ![c] = "redirected"]
          /\ bridge' = [bridge EXCEPT ![c] = "connecting"]
          /\ dest' = [dest EXCEPT ![c] = nat[port[c]]]
  /\ UNCHANGED <<stop, refresher, seen, ports, divert, wire, nat, listener, port, pump, late>>

\* TcpStream::connect to the real server, then the two threads
BridgeConnects(c) ==
  /\ bridge[c] = "connecting"
  /\ \/ /\ bridge' = [bridge EXCEPT ![c] = "copying"]
        /\ pump' = [pump EXCEPT ![c] = [d \in Way |-> "read"]]
        /\ UNCHANGED conn
     \/ /\ bridge' = [bridge EXCEPT ![c] = "ended"]
        /\ conn' = [conn EXCEPT ![c] = "closed"]
        /\ UNCHANGED pump
  /\ UNCHANGED <<stop, refresher, seen, ports, divert, wire, nat, listener, port, dest, late>>

Pumps(c, d, from, to) ==
  /\ bridge[c] = "copying" /\ pump[c][d] = from
  /\ pump' = [pump EXCEPT ![c][d] = to]
  /\ UNCHANGED <<stop, refresher, seen, ports, divert, wire, nat, listener, port, dest, late>>

\* One direction is over. The sockets close after the second.
DirectionEnds(c, d, from) ==
  /\ Pumps(c, d, from, "off")
  /\ IF \A e \in Way \ {d} : pump[c][e] = "off"
     THEN bridge' = [bridge EXCEPT ![c] = "ended"] /\ conn' = [conn EXCEPT ![c] = "closed"]
     ELSE UNCHANGED <<bridge, conn>>

\* A read returns: with bytes, which are written now (write_all), with an end of
\* file or with an error, which a timeout not reported as WouldBlock is too.
DirectionReads(c, d) ==
  \/ Pumps(c, d, "read", "write") /\ UNCHANGED <<bridge, conn>>
  \/ DirectionEnds(c, d, "read")

\* A plausible bug: the flag is looked at only after a write.
FlagAfterWrite(c, d) == stop /\ DirectionEnds(c, d, "write")

\* A read times out, and the loop looks at the flag.
DirectionStops(c, d) == stop /\ DirectionEnds(c, d, "read")

\* A write has no timeout: it returns once the other end has read, or with an error.
DirectionWrites(c, d) ==
  \/ ~stop /\ Pumps(c, d, "write", "read") /\ UNCHANGED <<bridge, conn>>
  \/ DirectionEnds(c, d, "write")

-----------------------------------------------------------------------------
(* The user and the processes.                                             *)

\* "Parar"
Drop ==
  /\ ~stop
  /\ stop' = TRUE
  /\ UNCHANGED <<refresher, seen, ports, divert, wire, nat, listener, sockets, late>>

\* A process opens a connection: the first packet waits in the driver.
Connect(c, p) ==
  /\ conn[c] = "unused" /\ p \notin InUse
  /\ Len(wire) < MaxWire
  /\ conn' = [conn EXCEPT ![c] = "connecting"]
  /\ port' = [port EXCEPT ![c] = p]
  /\ wire' = Append(wire, c)
  /\ UNCHANGED <<stop, refresher, seen, ports, divert, nat, listener, bridge, pump, dest, late>>

\* A process sends on a connection that is open.
SendPacket(c) ==
  /\ conn[c] \in {"direct", "redirected"}
  /\ Len(wire) < MaxWire
  /\ wire' = Append(wire, c)
  /\ UNCHANGED <<stop, refresher, seen, ports, divert, nat, listener, sockets, late>>

\* A process closes, after its last packet has left.
Close(c) ==
  /\ conn[c] \in Open
  /\ \A i \in 1..Len(wire) : wire[i] # c
  /\ conn' = [conn EXCEPT ![c] = "closed"]
  /\ UNCHANGED <<stop, refresher, seen, ports, divert, wire, nat, listener, port, bridge, pump, dest, late>>

Refresher == RefresherReads \/ RefresherPublishes
Divert    == DivertOpens \/ DivertChecks \/ DivertRewrites
Listener  == ListenerEnds \/ \E c \in Conn : ListenerAccepts(c)
Bridge(c) ==
  BridgeConnects(c) \/ \E d \in Way : DirectionReads(c, d) \/ DirectionStops(c, d) \/ DirectionWrites(c, d)

RdNext ==
  \/ Refresher \/ Divert \/ Undiverted \/ Listener \/ Drop
  \/ \E c \in Conn : Bridge(c) \/ SendPacket(c) \/ Close(c) \/ \E p \in Port : Connect(c, p)

RdSpec == RdInit /\ [][RdNext]_rdVars

-----------------------------------------------------------------------------
(* Properties.                                                             *)

\* "que faz a ponte ate o destino real": an accepted connection whose process
\* is still there is copied to the server it asked for, and what comes back is given
\* that server's address, which rewrite_packet takes from the map; however ports are
\* given again and whatever the map held for its port before.
BridgesToOwnServer ==
  \A c \in Conn :
    conn[c] = "redirected" => dest[c] = Server[c] /\ nat[port[c]] = Server[c]

\* "O Drop encerra tudo": the driver's thread may be waiting for a packet when
\* the flag is set, and rewrites that one, but no other.
RewritesOnceAfterDrop == late <= 1

\* What the code makes of it: every thread ends but the driver's while it waits for a
\* packet, and a direction that writes to an end which does not read. (The flag is
\* never taken back.)
DroppedRedirectEnds ==
  []<>(stop =>
         /\ refresher = "ended" /\ listener = "ended"
         /\ divert = "ended" \/ (divert = "recv" /\ wire = <<>>)
         /\ \A c \in Conn :
              \/ bridge[c] \in {"none", "ended"}
              \/ bridge[c] = "copying" /\ \A d \in Way : pump[c][d] # "read")

\* "O Drop encerra tudo", of the connections: their bridges end.
DropEndsConnections == []<>(stop => \A c \in Conn : bridge[c] \in {"none", "ended"})
=============================================================================
