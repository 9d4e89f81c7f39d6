------------------------------- MODULE Capture -------------------------------
(***************************************************************************)
(* The passive capture: a thread takes packets off a raw socket and adds   *)
(* each to three counts under three locks (ingest), and the GUI thread     *)
(* copies the same three counts, again one after the other, when the user  *)
(* stops and saves (snapshot_session).                                     *)
(*                                                                         *)
(* A thread that was told to stop goes on with a CaptureShared nobody      *)
(* reads, and is left out from then on. A conversation is known by its key; *)
(* bytes are added where packets are, and are left out.                    *)
(***************************************************************************)
EXTENDS Naturals, Sequences, FiniteSets, FiniteSetsExt

CONSTANTS
  Key,         (* conversations                                            *)
  MaxConvs,    (* MAX_CONVS                                                *)
  MaxPkts,     (* MAX_PKTS_PER_CONV                                        *)
  MaxPackets,  (* bound on the packets of a capture                        *)
  MaxCaptures, (* bound on the captures                                    *)
  NoKey        (* nothing in hand                                          *)

ASSUME CaptureConstants ==
  /\ IsFiniteSet(Key) /\ NoKey \notin Key
  /\ MaxConvs \in Nat /\ MaxPkts \in Nat /\ MaxPackets \in Nat /\ MaxCaptures \in Nat

VARIABLES
  capture,     (* App.capture                                              *)
  thread,      (* the receiving thread                                     *)
  packet,      (* the packet's conversation, while it is being added       *)
  total,       (* total_packets                                            *)
  convs,       (* packets of each conversation in convs, 0: not there      *)
  stored,      (* packets kept for it                                      *)
  owned,       (* conversations whose process is known                     *)
  copy,        (* what snapshot_session has copied                         *)
  sessions,    (* App.capture_sessions                                     *)
  chosen,      (* App.capture_session_sel, 0: the live capture             *)
  started      (* captures started so far                                  *)

shared  == <<total, convs, stored, owned>>
saved   == <<sessions, chosen>>
capVars == <<capture, thread, packet, shared, copy, saved, started>>

Counts  == [Key -> 0..MaxPackets]
Zero    == [k \in Key |-> 0]
NoCopy  == [step |-> "none", convs |-> Zero, stored |-> Zero]
Kept(n) == IF n < MaxPkts THEN n ELSE MaxPkts

CapTypeOK ==
  /\ capture \in BOOLEAN
  /\ thread \in {"off", "recv", "counted", "aggregated", "ended"}
  /\ packet \in Key \cup {NoKey}
  /\ total \in 0..MaxPackets /\ convs \in Counts /\ stored \in [Key -> 0..MaxPkts]
  /\ Cardinality({k \in Key : convs[k] > 0}) <= MaxConvs
  /\ owned \subseteq Key
  /\ copy \in [step : {"none", "convs", "packets"}, convs : Counts, stored : [Key -> 0..MaxPkts]]
  /\ sessions \in Seq([total : 0..MaxPackets, convs : Counts, stored : [Key -> 0..MaxPkts]])
  /\ chosen \in Nat /\ started \in 0..MaxCaptures

CapInit ==
  /\ capture = FALSE /\ thread = "off" /\ packet = NoKey
  /\ total = 0 /\ convs = Zero /\ stored = Zero /\ owned = {}
  /\ copy = NoCopy /\ sessions = <<>> /\ chosen = 0 /\ started = 0

-----------------------------------------------------------------------------
(* The threads of a capture.                                               *)

\* The socket cannot be had, or recv fails: the thread ends, the handle stays.
CaptureFails ==
  /\ capture /\ thread = "recv"
  /\ thread' = "ended"
  /\ UNCHANGED <<capture, packet, shared, copy, saved, started>>

\* A plausible bug: the packet is put in its conversation before it is counted.
IngestAggregatesFirst(k) ==
  /\ thread = "recv" /\ total < MaxPackets
  /\ Cardinality({j \in Key : convs[j] > 0} \cup {k}) <= MaxConvs
  /\ convs' = [convs EXCEPT ![k] = @ + 1]
  /\ packet' = k /\ thread' = "aggregated"
  /\ UNCHANGED <<capture, total, stored, owned, copy, saved, started>>

IngestCounts(k) ==
  /\ thread = "recv" /\ total < MaxPackets
  /\ total' = total + 1
  /\ packet' = k /\ thread' = "counted"
  /\ UNCHANGED <<capture, convs, stored, owned, copy, saved, started>>

\* lookup_pid, in the index refresh_proc_index rebuilds once a second from the
\* tables of the system: it may know the process of a conversation or not.
Attributed(k) == {owned, owned \cup {k}}

\* A plausible bug: the limit stops one conversation too late.
IngestPastLimit ==
  /\ thread = "counted"
  /\ IF convs[packet] > 0 \/ Cardinality({k \in Key : convs[k] > 0}) <= MaxConvs
     THEN /\ convs' = [convs EXCEPT ![packet] = @ + 1]
          /\ owned' \in Attributed(packet)
          /\ thread' = "aggregated" /\ UNCHANGED packet
     ELSE /\ thread' = "recv" /\ packet' = NoKey
          /\ UNCHANGED <<convs, owned>>
  /\ UNCHANGED <<capture, total, stored, copy, saved, started>>

\* A new conversation is dropped when there are MAX_CONVS; one whose process is
\* known keeps it.
IngestAggregates ==
  /\ thread = "counted"
  /\ IF convs[packet] > 0 \/ Cardinality({k \in Key : convs[k] > 0}) < MaxConvs
     THEN /\ convs' = [convs EXCEPT ![packet] = @ + 1]
          /\ owned' \in Attributed(packet)
          /\ thread' = "aggregated" /\ UNCHANGED packet
     ELSE /\ thread' = "recv" /\ packet' = NoKey
          /\ UNCHANGED <<convs, owned>>
  /\ UNCHANGED <<capture, total, stored, copy, saved, started>>

\* The ring of a conversation loses its oldest packet when it is full.
RingPushed(n) == IF n >= MaxPkts THEN n ELSE n + 1

IngestStores ==
  /\ thread = "aggregated"
  /\ stored' = [stored EXCEPT ![packet] = RingPushed(@)]
  /\ thread' = "recv" /\ packet' = NoKey
  /\ UNCHANGED <<capture, total, convs, owned, copy, saved, started>>

-----------------------------------------------------------------------------
(* The GUI thread.                                                         *)

\* "Iniciar"
StartCapture ==
  /\ ~capture /\ copy.step = "none" /\ started < MaxCaptures
  /\ capture' = TRUE /\ thread' = "recv" /\ packet' = NoKey
  /\ total' = 0 /\ convs' = Zero /\ stored' = Zero /\ owned' = {}
  /\ chosen' = 0 /\ started' = started + 1
  /\ UNCHANGED <<copy, sessions>>

\* "Parar e salvar": the three copies, then the handle is dropped.
CopyConvs ==
  /\ capture
  /\ capture' = FALSE
  /\ copy' = [step |-> "convs", convs |-> convs, stored |-> Zero]
  /\ UNCHANGED <<thread, packet, shared, saved, started>>

CopyPackets ==
  /\ copy.step = "convs"
  /\ copy' = [copy EXCEPT !.step = "packets", !.stored = stored]
  /\ UNCHANGED <<capture, thread, packet, shared, saved, started>>

SaveSession ==
  /\ copy.step = "packets"
  /\ sessions' = Append(sessions, [total |-> total, convs |-> copy.convs, stored |-> copy.stored])
  /\ chosen' = Len(sessions) + 1
  /\ copy' = NoCopy
  /\ thread' = "off" /\ packet' = NoKey
  /\ total' = 0 /\ convs' = Zero /\ stored' = Zero /\ owned' = {}
  /\ UNCHANGED <<capture, started>>

Choose(i) ==
  /\ copy.step = "none"
  /\ chosen' = i
  /\ UNCHANGED <<capture, thread, packet, shared, copy, sessions, started>>

RemoveSession ==
  /\ copy.step = "none" /\ chosen \in DOMAIN sessions
  /\ sessions' = SubSeq(sessions, 1, chosen - 1) \o SubSeq(sessions, chosen + 1, Len(sessions))
  /\ chosen' = 0
  /\ UNCHANGED <<capture, thread, packet, shared, copy, started>>

CapNext ==
  \/ StartCapture \/ CaptureFails
  \/ \E k \in Key : IngestCounts(k)
  \/ IngestAggregates \/ IngestStores
  \/ CopyConvs \/ CopyPackets \/ SaveSession
  \/ \E i \in DOMAIN sessions \cup (IF capture THEN {0} ELSE {}) : Choose(i)
  \/ RemoveSession

CapSpec == CapInit /\ [][CapNext]_capVars

-----------------------------------------------------------------------------
(* Properties.                                                             *)

\* The packets of all conversations.
Packets(count) == MapThenSumSet(LAMBDA k : count[k], Key)

\* "Tira um retrato do estado vivo da captura": although packets come in between
\* the three copies, a saved session never counts fewer packets than its
\* conversations have, nor keeps fewer than all but one of a conversation's
\* packets (or a full ring).
SessionsConsistent ==
  \A i \in DOMAIN sessions :
    LET s == sessions[i] IN
      /\ s.total >= Packets(s.convs)
      /\ \A k \in Key : s.convs[k] > 0 => s.stored[k] >= Kept(s.convs[k] - 1)
=============================================================================
