----------------------------- MODULE ChunkedScan -----------------------------
(***************************************************************************)
(* How a search thread walks one region of the target: read_chunked cuts   *)
(* the region into overlapping blocks and skips pages that cannot be read, *)
(* first_scan_job and first_scan_string_job test the items of each block   *)
(* and drop those the overlap shows them again.                            *)
(*                                                                         *)
(* Offsets are relative to the region. What is compared is abstracted to   *)
(* the set hit of offsets whose item passes; a text search is a search     *)
(* for an item as long as its pattern that is not a fast scan.             *)
(***************************************************************************)
EXTENDS Integers, Sequences

CONSTANTS
  PAGE,       (* bytes of a page; also the 0x1000 of the skip              *)
  CHUNK,      (* bytes of a block                                          *)
  PAGES,      (* pages of the region                                       *)
  ItemSizes,  (* sizes of value types, lengths of text patterns            *)
  Hits,       (* the candidates for hit                                    *)
  Holes       (* the candidates for the set of pages that cannot be read   *)

SIZE    == PAGE * PAGES
Offsets == 0..(SIZE - 1)

ASSUME CkAssumption ==
  /\ PAGE \in Nat \ {0} /\ CHUNK \in Nat \ {0} /\ PAGES \in Nat \ {0}
  /\ ItemSizes \subseteq 1..CHUNK
  /\ Hits \subseteq SUBSET Offsets
  /\ Holes \subseteq SUBSET (0..(PAGES - 1))

VARIABLES
  size,   (* size of an item                                               *)
  fast,   (* only offsets that are multiples of the item's size            *)
  hit,    (* offsets whose item passes the comparison                      *)
  holes,  (* pages that cannot be read                                     *)
  tight,  (* ReadProcessMemory stops exactly at the first such page and    *)
          (* still succeeds; otherwise a short read may fail or stop early *)
  pc,     (* "read" a block, "test" its items, "done"                      *)
  off,    (* start of the block                                            *)
  want,   (* bytes asked for                                               *)
  read,   (* bytes that came back                                          *)
  ok,     (* whether ReadProcessMemory succeeded                           *)
  i,      (* offset of the next item, in the block                         *)
  out     (* matches found                                                 *)

input  == <<size, fast, hit, holes, tight>>
ckVars == <<input, pc, off, want, read, ok, i, out>>

ReadableAt(x) == (x \div PAGE) \notin holes

\* The first n bytes from x can be read.
ReadableRun(x, n) == \A y \in x..(x + n - 1) : ReadableAt(y)

\* A plausible bug: consecutive blocks share nothing.
NoOverlap == 0

\* read_chunked's caller asks for blocks that share size - 1 bytes.
overlap == size - 1
Step    == IF CHUNK - overlap >= 1 THEN CHUNK - overlap ELSE 1

\* Distance between the items the caller tests.
Stride == IF fast THEN size ELSE 1

\* A plausible bug: every block is aligned to its own start.
AlignedToBlock(o) == 0

\* First item of a block that a walk from the start of the region would test.
Aligned(o) ==
  IF fast /\ o % size # 0 THEN size - (o % size) ELSE 0

CkInit ==
  /\ size \in ItemSizes
  /\ fast \in BOOLEAN
  /\ hit \in Hits
  /\ holes \in Holes
  /\ tight \in BOOLEAN
  /\ pc = "read"
  /\ off = 0 /\ want = 0 /\ read = 0 /\ ok = TRUE /\ i = 0
  /\ out = <<>>

\* What ReadProcessMemory may do with a request for n bytes at x.
ReadOutcome(x, n) ==
  IF ReadableRun(x, n)
  THEN {[ok |-> TRUE, read |-> n]}
  ELSE {r \in [ok : BOOLEAN, read : 0..n] :
          /\ ReadableRun(x, r.read)
          /\ tight => r.ok /\ ~ReadableRun(x, r.read + 1)}

\* A plausible bug: the last block is not cut at the end of the region.
ReadBlockPastEnd ==
  /\ pc = "read"
  /\ off < SIZE
  /\ want' = CHUNK
  /\ \E r \in ReadOutcome(off, want') :
       /\ ok' = r.ok
       /\ read' = r.read
       /\ pc' = IF r.ok /\ r.read > 0 THEN "test" ELSE "next"
  /\ i' = Aligned(off)
  /\ UNCHANGED <<input, off, out>>

ReadBlock ==
  /\ pc = "read"
  /\ off < SIZE
  /\ want' = IF CHUNK <= SIZE - off THEN CHUNK ELSE SIZE - off
  /\ \E r \in ReadOutcome(off, want') :
       /\ ok' = r.ok
       /\ read' = r.read
       /\ pc' = IF r.ok /\ r.read > 0 THEN "test" ELSE "next"
  /\ i' = Aligned(off)
  /\ UNCHANGED <<input, off, out>>

\* out's last element is the code's last_match.
IsNew(x) == out = <<>> \/ x > out[Len(out)]

\* One turn of the loop over the items of a block.
TestItem ==
  /\ pc = "test"
  /\ i + size <= read
  /\ out' = IF (off + i) \in hit /\ IsNew(off + i) THEN Append(out, off + i) ELSE out
  /\ i' = i + Stride
  /\ UNCHANGED <<input, pc, off, want, read, ok>>

EndOfBlock ==
  /\ pc = "test"
  /\ i + size > read
  /\ pc' = "next"
  /\ UNCHANGED <<input, off, want, read, ok, i, out>>

\* A plausible bug: a short block is skipped as a whole.
NextBlockSkipsChunk ==
  /\ pc = "next"
  /\ off' = IF ok /\ read = want THEN off + Step ELSE off + CHUNK
  /\ pc' = "read"
  /\ UNCHANGED <<input, want, read, ok, i, out>>

\* A plausible bug: a short block is followed by the byte it stopped at.
NextBlockRetries ==
  /\ pc = "next"
  /\ off' = IF ok /\ read = want THEN off + Step ELSE off + read
  /\ pc' = "read"
  /\ UNCHANGED <<input, want, read, ok, i, out>>

\* A full block is followed by one that overlaps it, a short one by the page
\* after the byte it stopped at.
NextBlock ==
  /\ pc = "next"
  /\ off' = IF ok /\ read = want
            THEN off + Step
            ELSE off + (IF read >= 1 THEN read ELSE 1) + PAGE
  /\ pc' = "read"
  /\ UNCHANGED <<input, want, read, ok, i, out>>

EndOfRegion ==
  /\ pc = "read"
  /\ off >= SIZE
  /\ pc' = "done"
  /\ UNCHANGED <<input, off, want, read, ok, i, out>>

CkNext == ReadBlock \/ TestItem \/ EndOfBlock \/ NextBlock \/ EndOfRegion

CkSpec == CkInit /\ [][CkNext]_ckVars
FairCkSpec == CkSpec /\ WF_ckVars(CkNext)

-----------------------------------------------------------------------------
CkTypeOK ==
  /\ size \in ItemSizes /\ fast \in BOOLEAN /\ hit \in Hits /\ holes \in Holes
  /\ tight \in BOOLEAN
  /\ pc \in {"read", "test", "next", "done"}
  /\ off \in Nat /\ want \in 0..CHUNK /\ read \in 0..CHUNK /\ ok \in BOOLEAN
  /\ i \in Nat
  /\ out \in Seq(Offsets)
  /\ pc \in {"test", "next"} => off + want <= SIZE

Found == {out[k] : k \in DOMAIN out}

\* The items a continuous walk over readable memory would report.
Reportable ==
  {x \in hit : /\ x + size <= SIZE
               /\ fast => x % size = 0
               /\ ReadableRun(x, size)}

\* No false match: whatever ReadProcessMemory does, a reported offset passes
\* the comparison, is aligned when the scan is a fast one, and its bytes were
\* really read (the realignment of each block to the region's base).
OnlyReportable == Found \subseteq Reportable

\* Blocks overlap by exactly what is needed: no item that passed comes up a second
\* time, so the guard against reporting it twice (IsNew) never has to act, and
\* the list is sorted by address.
TestedOnce == (pc = "test" /\ i + size <= read) => IsNew(off + i)

\* Together: what is reported is right and reported once (the callbacks of
\* first_scan_job on the blocks of read_chunked).
SoundReport == OnlyReportable /\ TestedOnce

\* "Blocos consecutivos se sobrepoem ... para nao perder um match que cruze a
\* fronteira": in a region without holes the blocks lose nothing.
CompleteWithoutHoles == (pc = "done" /\ holes = {}) => Found = Reportable

\* Holes cost nothing either when they are apart from each other, the first
\* page is not one, items are longer than a byte and ReadProcessMemory delivers
\* what precedes a hole: the skip then lands on the page after it.
Apart == 0 \notin holes /\ \A p \in holes : p + 1 \notin holes
CompleteAroundHoles == (pc = "done" /\ tight /\ size > 1 /\ Apart) => Found = Reportable

\* "um match nao pode cruzar uma pagina nao mapeada, entao nao ha perda": the
\* claim without those conditions, with ReadProcessMemory at its best. A block
\* that starts on a hole skips one byte too many.
NoLossAtHoles == (pc = "done" /\ tight) => Found = Reportable

\* The walk ends: every block moves on, also when nothing can be read.
ScanEnds == <>(pc = "done")
=============================================================================
