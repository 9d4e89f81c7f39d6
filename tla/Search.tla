-------------------------------- MODULE Search --------------------------------
(***************************************************************************)
(* What a search promises its user. At most one scan is pending. Its       *)
(* answer says of every region what the comparison says of some value the  *)
(* region held while the scan was pending; a scan that was cancelled may   *)
(* leave regions as they were, and a snapshot stops when it is full.       *)
(* ScanSession implements it, with workers that read one region at a time. *)
(***************************************************************************)
EXTENDS Scans

VARIABLES
  mem,         (* what each region of each process holds                   *)
  attached,    (* the process on screen                                    *)
  matches,     (* the matches on screen, with the value each was found with *)
  hasScanned,  (* there is something to scan again                         *)
  snapshot,    (* the values that were there when the unknown-value search *)
               (* began                                                    *)
  search       (* the pending scan, and what each region of its process    *)
               (* has held since it began                                  *)

vars == <<mem, attached, matches, hasScanned, snapshot, search>>

NoSearch == [op |-> "none"]
Idle     == search = NoSearch

\* The comparison of a scan that compares nothing.
NoComparison == [kind |-> "none"]

Ask(op, c, base) ==
  search' = [op |-> op, proc |-> attached, cmp |-> c, base |-> base,
             held |-> [a \in Addr |-> {mem[attached][a]}], cancelled |-> FALSE]

Init ==
  /\ mem \in [Proc -> [Addr -> Val \cup {Unmapped}]]
  /\ attached = NoProc
  /\ matches = NoMatches
  /\ hasScanned = FALSE
  /\ snapshot = NoSnapshot
  /\ search = NoSearch

-----------------------------------------------------------------------------
(* The answer of a scan.                                                   *)

Regions(s) == IF s.op \in {"next", "unknown_next"} THEN DOMAIN s.base ELSE Addr

\* Does region a pass with value v, and what is remembered of it?
Passes(s, a, v) ==
  \/ s.op = "first" /\ v # Unmapped /\ Compare(s.cmp, v, 0)
  \/ s.op = "next" /\ v # Unmapped /\ Compare(s.cmp, v, s.base[a])
  \/ s.op = "unknown_next" /\ Compare(s.cmp, ZeroFilled(v), s.base[a])
  \/ s.op = "snapshot" /\ a \in Writable /\ v # Unmapped

Remembered(s, a, v) ==
  CASE s.op = "first"        -> FirstLast(s.cmp, v)
    [] s.op = "next"         -> NextLast(s.cmp, v, s.base[a])
    [] s.op = "unknown_next" -> ZeroFilled(v)
    [] s.op = "snapshot"     -> v

\* What out says of region a is right for one of the values a has held.
Right(s, a, out) ==
  \E v \in s.held[a] :
    IF Passes(s, a, v) THEN a \in DOMAIN out /\ out[a] = Remembered(s, a, v)
                       ELSE a \notin DOMAIN out

\* Region a is as it was before the scan.
Unscanned(s, a, out) ==
  IF s.op = "next" THEN a \in DOMAIN out /\ out[a] = s.base[a] ELSE a \notin DOMAIN out

Answers(s, out) ==
  /\ DOMAIN out \subseteq Regions(s)
  /\ \A a \in Regions(s) : Right(s, a, out) \/ Unscanned(s, a, out)
  /\ \/ \A a \in Regions(s) : Right(s, a, out)
     \/ s.cancelled
     \/ s.op = "snapshot" /\ Cardinality(DOMAIN out) = SnapMax
  /\ s.op = "snapshot" => Cardinality(DOMAIN out) <= SnapMax

-----------------------------------------------------------------------------
(* The user.                                                               *)

Attach(p) ==
  /\ attached' = p
  /\ matches' = NoMatches
  /\ hasScanned' = FALSE
  /\ UNCHANGED <<mem, snapshot, search>>

First(c) ==
  /\ Idle /\ attached # NoProc
  /\ c.kind \notin RelativeKind
  /\ matches' = NoMatches
  /\ hasScanned' = FALSE
  /\ Ask("first", c, NoMatches)
  /\ UNCHANGED <<mem, attached, snapshot>>

TakeSnapshot ==
  /\ Idle /\ attached # NoProc
  /\ matches' = NoMatches
  /\ hasScanned' = FALSE
  /\ snapshot' = NoSnapshot
  /\ Ask("snapshot", NoComparison, NoMatches)
  /\ UNCHANGED <<mem, attached>>

\* The matches are scanned again, and wait in the scan for its answer.
Again(c) ==
  /\ Idle /\ attached # NoProc /\ hasScanned
  /\ c.kind = "Text" \/ snapshot = NoSnapshot
  /\ matches' = NoMatches
  /\ Ask("next", c, matches)
  /\ UNCHANGED <<mem, attached, hasScanned, snapshot>>

\* So does the snapshot, which becomes matches.
Narrow(c) ==
  /\ Idle /\ attached # NoProc /\ hasScanned
  /\ c.kind # "Text" /\ snapshot # NoSnapshot
  /\ snapshot' = NoSnapshot
  /\ Ask("unknown_next", c, snapshot)
  /\ UNCHANGED <<mem, attached, matches, hasScanned>>

StartOver ==
  /\ Idle
  /\ matches' = NoMatches
  /\ hasScanned' = FALSE
  /\ snapshot' = NoSnapshot
  /\ UNCHANGED <<mem, attached, search>>

Cancel ==
  /\ ~Idle
  /\ search' = [search EXCEPT !.cancelled = TRUE]
  /\ UNCHANGED <<mem, attached, matches, hasScanned, snapshot>>

-----------------------------------------------------------------------------
(* The scan ends, with an answer or without, and the processes run on.     *)

Deliver ==
  /\ ~Idle
  /\ IF search.op = "snapshot"
       THEN /\ snapshot' \in Partial(Addr, Val) /\ Answers(search, snapshot')
            /\ matches' = NoMatches
       ELSE /\ matches' \in Partial(Addr, Val) /\ Answers(search, matches')
            /\ UNCHANGED snapshot
  /\ hasScanned' = TRUE
  /\ search' = NoSearch
  /\ UNCHANGED <<mem, attached>>

Fail ==
  /\ ~Idle
  /\ search' = NoSearch
  /\ UNCHANGED <<mem, attached, matches, hasScanned, snapshot>>

Write(p, a, v) ==
  /\ mem' = [mem EXCEPT ![p][a] = v]
  /\ search' = IF ~Idle /\ search.proc = p
               THEN [search EXCEPT !.held[a] = @ \cup {v}] ELSE search
  /\ UNCHANGED <<attached, matches, hasScanned, snapshot>>

Next ==
  \/ \E p \in Proc : Attach(p)
  \/ \E c \in Comparison : First(c) \/ Again(c) \/ Narrow(c)
  \/ TakeSnapshot \/ StartOver \/ Cancel
  \/ Deliver \/ Fail
  \/ \E p \in Proc, a \in Addr, v \in Val \cup {Unmapped} : Write(p, a, v)

Spec == Init /\ [][Next]_vars
=============================================================================
