-------------------------------- MODULE Scans --------------------------------
(***************************************************************************)
(* What a scan is about: regions of processes, values, comparisons, lists  *)
(* of matches; and what each of the jobs of scan.rs makes of one value.    *)
(*                                                                         *)
(* An address stands for a region of the process that holds one scannable  *)
(* value. How a region is cut into blocks is the subject of ChunkedScan.   *)
(***************************************************************************)
EXTENDS Integers, FiniteSets, Functions

CONSTANTS
  Proc,        (* processes the user can attach to                         *)
  Addr,        (* regions of a process, by base address                    *)
  Val,         (* values a region can hold                                 *)
  Writable,    (* the regions a snapshot looks at: writable and not above  *)
               (* SNAP_MAX_REGION                                          *)
  SnapMax,     (* how many regions fit in SNAP_MAX_TOTAL                   *)
  Comparison,  (* the comparisons the user enters, a subset of ScanCmp     *)
  Unmapped,    (* content of a region that cannot be read                  *)
  NoProc,      (* App.attached = None                                      *)
  NoTask,      (* App.scan_task = None, App.unknown_task = None            *)
  NoSnapshot   (* App.unknown_snapshot = None                              *)

ValueKind    == {"Exact", "BiggerThan", "SmallerThan", "Between"}
RelativeKind == {"Changed", "Unchanged", "Increased", "Decreased"}

\* A text search compares with a pattern; it is the one kind that is not a
\* ScanKind of the code, where the value type says that the search is textual.
ScanCmp == [kind : ValueKind \cup RelativeKind \cup {"Text"}, t1 : Val, t2 : Val]

\* Partial functions: a Vec<Match> maps its addresses to the last value seen,
\* a Snapshot maps the regions it holds to their content.
Partial(S, T) == UNION {[D -> T] : D \in SUBSET S}

NoMatches == [a \in {} |-> 0]

\* f and, where f says nothing, g: the @@ of the TLC module, whose definition
\* the provers do not have.
Join(f, g) == [x \in DOMAIN f \cup DOMAIN g |-> IF x \in DOMAIN f THEN f[x] ELSE g[x]]
With(f, a, v) == Join(f, [x \in {a} |-> v])

-----------------------------------------------------------------------------
\* compare and compare_pair: does value v, whose previous value is prev, pass?
Compare(c, v, prev) ==
  \/ c.kind \in {"Exact", "Text"} /\ v = c.t1
  \/ c.kind = "BiggerThan"  /\ v > c.t1
  \/ c.kind = "SmallerThan" /\ v < c.t1
  \/ c.kind = "Between"     /\ c.t1 <= v /\ v <= c.t2
  \/ c.kind = "Changed"     /\ v # prev
  \/ c.kind = "Unchanged"   /\ v = prev
  \/ c.kind = "Increased"   /\ v > prev
  \/ c.kind = "Decreased"   /\ v < prev

\* The buffer of a region that cannot be read stays at its initial zeroes.
ZeroFilled(v) == IF v = Unmapped THEN 0 ELSE v

\* The last value stored with a match that the first scan finds: a text match
\* stores 0.0.
FirstLast(c, v) == IF c.kind = "Text" THEN 0 ELSE v

\* A plausible bug: a kept match is not updated.
NextLastStale(c, v, last) == last

\* The last value of a match that a next scan keeps: a text scan leaves it.
NextLast(c, v, last) == IF c.kind = "Text" THEN last ELSE v
=============================================================================
