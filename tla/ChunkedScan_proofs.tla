-------------------------- MODULE ChunkedScan_proofs --------------------------
(***************************************************************************)
(* Theorems about ChunkedScan, for every size of page, block, region and   *)
(* item, every set of holes and whatever ReadProcessMemory makes of them.  *)
(***************************************************************************)
EXTENDS ChunkedScan, TLAPS

-----------------------------------------------------------------------------
(* Multiples: what the alignment of fast scans rests on.                   *)

LEMMA Division ==
  ASSUME NEW n \in Nat \ {0}, NEW a \in Nat
  PROVE  /\ a = n * (a \div n) + (a % n)
         /\ a % n \in 0..(n - 1)
         /\ a \div n \in Nat
OBVIOUS

LEMMA MultiplesApart ==
  ASSUME NEW n \in Nat \ {0}, NEW p \in Int, NEW q \in Int, p < q
  PROVE  n * p + n <= n * q
OBVIOUS

LEMMA MultipleOf ==
  ASSUME NEW n \in Nat \ {0}, NEW p \in Int
  PROVE  (n * p) % n = 0
OBVIOUS

\* Two multiples of n less than n apart are one.
LEMMA SameMultiple ==
  ASSUME NEW n \in Nat \ {0}, NEW a \in Nat, NEW b \in Nat,
         a % n = 0, b % n = 0, a <= b, b < a + n
  PROVE  a = b
<1> DEFINE p == a \div n
           q == b \div n
<1>1. a = n * p /\ b = n * q /\ p \in Int /\ q \in Int
  BY Division
<1> HIDE DEF p, q
<1>2. ~(p < q)
  BY <1>1, MultiplesApart
<1>3. ~(q < p)
  BY <1>1, MultiplesApart
<1> QED BY <1>1, <1>2, <1>3

\* No multiple of n lies between o and the first one from o on.
LEMMA NoneBetween ==
  ASSUME NEW n \in Nat \ {0}, NEW o \in Nat, NEW b \in Nat, NEW x \in Nat,
         x % n = 0, b % n = 0, x < b, b < o + n
  PROVE  x < o
<1> SUFFICES ASSUME o <= x PROVE FALSE
  OBVIOUS
<1>1. x <= b /\ b < x + n
  OBVIOUS
<1>2. x = b
  BY <1>1, SameMultiple
<1> QED BY <1>2

LEMMA NextMultiple ==
  ASSUME NEW n \in Nat \ {0}, NEW a \in Nat
  PROVE  /\ a % n = 0 => (a + n) % n = 0
         /\ (a + (n - (a % n))) % n = 0
         /\ n - (a % n) \in 1..n
<1> DEFINE p == a \div n
           r == a % n
<1>1. a = n * p + r /\ p \in Int /\ r \in 0..(n - 1)
  BY Division
<1> HIDE DEF p, r
<1>2. a + (n - r) = n * (p + 1)
  BY <1>1
<1>3. (n * (p + 1)) % n = 0
  BY <1>1, MultipleOf
<1>4. r = 0 => a + n = n * (p + 1)
  BY <1>1
<1> QED BY <1>1, <1>2, <1>3, <1>4 DEF r

-----------------------------------------------------------------------------
(* Sizes.                                                                  *)

LEMMA Sizes ==
  ASSUME CkTypeOK
  PROVE  /\ SIZE \in Nat
         /\ size \in Nat \ {0} /\ size <= CHUNK
         /\ CHUNK \in Nat \ {0} /\ PAGE \in Nat \ {0}
         /\ Step = CHUNK - size + 1 /\ Step \in Nat \ {0}
         /\ Stride \in Nat \ {0} /\ Stride <= size
<1>1. SIZE \in Nat
  BY CkAssumption DEF CkAssumption, SIZE
<1>2. size \in Nat \ {0} /\ size <= CHUNK /\ CHUNK \in Nat \ {0} /\ PAGE \in Nat \ {0}
  BY CkAssumption DEF CkAssumption, CkTypeOK
<1> QED BY <1>1, <1>2 DEF Step, overlap, Stride, CkTypeOK

\* The matches are offsets.
LEMMA OutIsSeq ==
  ASSUME CkTypeOK
  PROVE  /\ out \in Seq(Offsets) /\ Len(out) \in Nat /\ DOMAIN out = 1..Len(out)
         /\ \A k \in DOMAIN out : out[k] \in Offsets /\ out[k] \in Nat
<1>1. Offsets \subseteq Nat
  BY Sizes DEF Offsets
<1>2. out \in Seq(Offsets)
  BY DEF CkTypeOK
<1>3. Len(out) \in Nat /\ DOMAIN out = 1..Len(out)
  BY <1>2
<1>4. \A k \in 1..Len(out) : out[k] \in Offsets
  BY <1>2
<1> QED BY <1>1, <1>2, <1>3, <1>4

\* Where the first item of a block is.
LEMMA AlignedStart ==
  ASSUME CkTypeOK, NEW o \in Nat
  PROVE  /\ Aligned(o) \in 0..(size - 1)
         /\ fast => (o + Aligned(o)) % size = 0
         /\ ~fast => Aligned(o) = 0
<1>1. size \in Nat \ {0} /\ fast \in BOOLEAN
  BY Sizes DEF CkTypeOK
<1>2. o % size \in 0..(size - 1)
  BY <1>1, Division
<1>3. CASE fast /\ o % size # 0
  <2> DEFINE r == o % size
  <2>1. Aligned(o) = size - r
    BY <1>3 DEF Aligned
  <2>2. (o + (size - r)) % size = 0
    BY <1>1, NextMultiple
  <2>3. r \in 0..(size - 1) /\ r # 0
    BY <1>2, <1>3
  <2> HIDE DEF r
  <2>4. size - r \in 0..(size - 1)
    BY <1>1, <2>3
  <2> QED BY <1>3, <2>1, <2>2, <2>4
<1>4. CASE ~(fast /\ o % size # 0)
  <2>1. Aligned(o) = 0
    BY <1>4 DEF Aligned
  <2> QED BY <1>1, <1>4, <2>1
<1> QED BY <1>3, <1>4

-----------------------------------------------------------------------------
(* The inductive invariant of the walk, holes or not.                      *)

\* In a block everything that was read can be read and lies in the region, and
\* the next item is where a walk from the base would have it; what was reported
\* lies before it, and before the next block once this one is done.
InBlock ==
  /\ pc \in {"read", "done"} => \A k \in DOMAIN out : out[k] < off
  /\ pc = "test" => /\ ok /\ read <= want /\ off + want <= SIZE
                    /\ ReadableRun(off, read)
                    /\ fast => (off + i) % size = 0
                    /\ \A k \in DOMAIN out :
                         out[k] < off + i /\ (out[k] < off \/ out[k] + size <= off + read)
  /\ pc = "next" => \A k \in DOMAIN out : out[k] < off \/ out[k] + size <= off + read

WalkInv == CkTypeOK /\ InBlock /\ OnlyReportable

THEOREM WalkInit == CkInit => WalkInv
<1> SUFFICES ASSUME CkInit PROVE WalkInv
  OBVIOUS
<1>1. CkTypeOK
  BY CkAssumption DEF CkInit, CkTypeOK, CkAssumption
<1> QED BY <1>1 DEF CkInit, WalkInv, InBlock, OnlyReportable, Found

\* What came back was readable and no more than asked for.
LEMMA Outcome ==
  ASSUME NEW x, NEW n \in Nat, NEW r \in ReadOutcome(x, n)
  PROVE  /\ r.ok \in BOOLEAN /\ r.read \in 0..n /\ ReadableRun(x, r.read)
         /\ ReadableRun(x, n) => r.ok /\ r.read = n
<1>1. CASE ReadableRun(x, n)
  <2>1. r = [ok |-> TRUE, read |-> n]
    BY <1>1 DEF ReadOutcome
  <2> QED BY <1>1, <2>1
<1>2. CASE ~ReadableRun(x, n)
  <2>1. r \in [ok : BOOLEAN, read : 0..n] /\ ReadableRun(x, r.read)
    BY <1>2 DEF ReadOutcome
  <2> QED BY <1>2, <2>1
<1> QED BY <1>1, <1>2

LEMMA ReadStep == WalkInv /\ ReadBlock => WalkInv'
<1> SUFFICES ASSUME WalkInv, ReadBlock PROVE WalkInv'
  OBVIOUS
<1>t. CkTypeOK
  BY DEF WalkInv
<1>s. SIZE \in Nat /\ size \in Nat \ {0} /\ CHUNK \in Nat \ {0} /\ off \in Nat
  BY <1>t, Sizes DEF CkTypeOK
<1>1. /\ off < SIZE /\ pc = "read"
      /\ want' = IF CHUNK <= SIZE - off THEN CHUNK ELSE SIZE - off
      /\ i' = Aligned(off) /\ UNCHANGED <<input, off, out>>
  BY DEF ReadBlock
<1>2. want' \in 0..CHUNK /\ off + want' <= SIZE
  BY <1>s, <1>1
<1>3. /\ ok' \in BOOLEAN /\ read' \in 0..want' /\ ReadableRun(off, read')
      /\ pc' = IF ok' /\ read' > 0 THEN "test" ELSE "next"
  <2>1. PICK r \in ReadOutcome(off, want') :
          ok' = r.ok /\ read' = r.read
          /\ pc' = IF r.ok /\ r.read > 0 THEN "test" ELSE "next"
    BY DEF ReadBlock
  <2> QED BY <1>2, <2>1, Outcome
<1>4. /\ i' \in 0..(size - 1)
      /\ fast => (off + i') % size = 0
  BY <1>t, <1>s, <1>1, AlignedStart
<1>5. CkTypeOK'
  BY <1>t, <1>s, <1>1, <1>2, <1>3, <1>4 DEF CkTypeOK, input
<1>6. (ReadableRun(off, read))'
  BY <1>1, <1>3 DEF ReadableRun, ReadableAt, input
<1>7. InBlock'
  <2>1. \A k \in DOMAIN out : out[k] \in Nat /\ out[k] < off
    BY <1>t, <1>1, OutIsSeq DEF WalkInv, InBlock
  <2> QED BY <1>s, <1>1, <1>2, <1>3, <1>4, <1>6, <2>1 DEF InBlock, input
<1>8. OnlyReportable'
  BY <1>1 DEF WalkInv, OnlyReportable, Found, Reportable, ReadableRun, ReadableAt, input
<1> QED BY <1>5, <1>7, <1>8 DEF WalkInv

\* Nothing that passed so far is at or behind the next item.
LEMMA NothingAhead ==
  ASSUME CkTypeOK, NEW x \in Nat, \A k \in DOMAIN out : out[k] < x
  PROVE  IsNew(x)
<1>1. out # <<>> => Len(out) \in DOMAIN out
  BY OutIsSeq DEF CkTypeOK
<1>2. out # <<>> => out[Len(out)] < x /\ out[Len(out)] \in Nat
  BY <1>1, OutIsSeq
<1> QED BY <1>2 DEF IsNew

LEMMA TestStep == WalkInv /\ TestItem => WalkInv'
<1> SUFFICES ASSUME WalkInv, TestItem PROVE WalkInv'
  OBVIOUS
<1>t. CkTypeOK
  BY DEF WalkInv
<1>s. /\ SIZE \in Nat /\ size \in Nat \ {0} /\ off \in Nat /\ i \in Nat /\ read \in Nat
      /\ want \in Nat /\ Stride \in Nat \ {0} /\ Stride <= size
  BY <1>t, Sizes, CkAssumption DEF CkTypeOK, CkAssumption
<1>1. /\ pc = "test" /\ i + size <= read /\ i' = i + Stride
      /\ out' = IF (off + i) \in hit /\ IsNew(off + i) THEN Append(out, off + i) ELSE out
      /\ UNCHANGED <<input, pc, off, want, read, ok>>
  BY DEF TestItem
<1>2. /\ ok /\ read <= want /\ off + want <= SIZE /\ ReadableRun(off, read)
      /\ fast => (off + i) % size = 0
      /\ \A k \in DOMAIN out : out[k] < off + i
      /\ \A k \in DOMAIN out : out[k] < off \/ out[k] + size <= off + read
  BY <1>1 DEF WalkInv, InBlock
<1>3. off + i \in Offsets
  BY <1>s, <1>1, <1>2 DEF Offsets
<1>4. out' \in Seq(Offsets)
  BY <1>1, <1>3, <1>t, OutIsSeq
<1>5. \A k \in DOMAIN out' :
        \/ out'[k] = off + i /\ (off + i) \in hit
        \/ k \in DOMAIN out /\ out'[k] = out[k]
  BY <1>1, <1>3, <1>t, OutIsSeq
<1>6. CkTypeOK'
  BY <1>t, <1>s, <1>1, <1>4 DEF CkTypeOK, input
<1>7. fast => (off + i') % size = 0
  <2>1. fast => (off + i + size) % size = 0
    BY <1>s, <1>2, NextMultiple
  <2>2. fast => Stride = size
    BY DEF Stride
  <2> QED BY <1>s, <1>1, <2>1, <2>2
<1>8. InBlock'
  <2>1. (ReadableRun(off, read))'
    BY <1>1, <1>2 DEF ReadableRun, ReadableAt, input
  <2>2. \A k \in DOMAIN out' :
          out'[k] < off + i' /\ (out'[k] < off \/ out'[k] + size <= off + read)
    BY <1>s, <1>1, <1>2, <1>5, <1>t, OutIsSeq
  <2> QED BY <1>1, <1>2, <1>7, <2>1, <2>2 DEF InBlock, input
<1>9. (off + i) \in hit => (off + i) \in Reportable
  <2>1. ReadableRun(off + i, size)
    BY <1>s, <1>1, <1>2 DEF ReadableRun
  <2>2. off + i + size <= SIZE
    BY <1>s, <1>1, <1>2
  <2> QED BY <1>2, <2>1, <2>2 DEF Reportable
<1>10. OnlyReportable'
  <2>1. Reportable' = Reportable
    BY <1>1 DEF Reportable, ReadableRun, ReadableAt, input
  <2>2. \A k \in DOMAIN out : out[k] \in Reportable
    BY DEF WalkInv, OnlyReportable, Found
  <2> QED BY <1>5, <1>9, <2>1, <2>2 DEF OnlyReportable, Found
<1> QED BY <1>6, <1>8, <1>10 DEF WalkInv

\* The end of a block, the choice of the next one, and the end of the region.
LEMMA OtherSteps == WalkInv /\ (EndOfBlock \/ NextBlock \/ EndOfRegion) => WalkInv'
<1> SUFFICES ASSUME WalkInv, EndOfBlock \/ NextBlock \/ EndOfRegion PROVE WalkInv'
  OBVIOUS
<1>t. CkTypeOK
  BY DEF WalkInv
<1>s. /\ size \in Nat \ {0} /\ off \in Nat /\ read \in Nat /\ want \in 0..CHUNK
      /\ CHUNK \in Nat \ {0} /\ PAGE \in Nat \ {0} /\ Step = CHUNK - size + 1
      /\ Step \in Nat \ {0}
  BY <1>t, Sizes, CkAssumption DEF CkTypeOK, CkAssumption
<1>1. UNCHANGED <<input, want, read, ok, i, out>>
  BY DEF EndOfBlock, NextBlock, EndOfRegion
<1>2. OnlyReportable'
  BY <1>1 DEF WalkInv, OnlyReportable, Found, Reportable, ReadableRun, ReadableAt, input
<1>3. CASE EndOfBlock
  <2>1. CkTypeOK'
    BY <1>t, <1>3 DEF EndOfBlock, CkTypeOK, input
  <2> QED BY <1>2, <1>3, <2>1 DEF EndOfBlock, WalkInv, InBlock, input
<1>4. CASE EndOfRegion
  <2>1. CkTypeOK'
    BY <1>t, <1>4 DEF EndOfRegion, CkTypeOK, input
  <2> QED BY <1>2, <1>4, <2>1 DEF EndOfRegion, WalkInv, InBlock, input
<1>5. CASE NextBlock
  <2>1. /\ off' = IF ok /\ read = want THEN off + Step
                  ELSE off + (IF read >= 1 THEN read ELSE 1) + PAGE
        /\ pc = "next" /\ pc' = "read"
    BY <1>5 DEF NextBlock
  <2>2. /\ off' \in Nat /\ off < off'
        /\ \A x \in Nat : x + size <= off + read => x < off'
    BY <1>s, <2>1
  <2>3. CkTypeOK'
    BY <1>t, <1>1, <2>1, <2>2 DEF CkTypeOK, input
  <2>4. \A k \in DOMAIN out : out[k] < off'
    <3>1. \A k \in DOMAIN out : out[k] < off \/ out[k] + size <= off + read
      BY <2>1 DEF WalkInv, InBlock
    <3>2. \A k \in DOMAIN out : out[k] \in Nat
      BY <1>t, OutIsSeq
    <3> QED BY <1>s, <2>2, <3>1, <3>2
  <2> QED BY <1>1, <1>2, <2>1, <2>3, <2>4 DEF WalkInv, InBlock
<1> QED BY <1>3, <1>4, <1>5

THEOREM WalkStep == WalkInv /\ [CkNext]_ckVars => WalkInv'
<1>1. WalkInv /\ UNCHANGED ckVars => WalkInv'
  BY DEF ckVars, input, WalkInv, CkTypeOK, InBlock, OnlyReportable, Found, Reportable, ReadableRun,
         ReadableAt
<1> QED BY <1>1, ReadStep, TestStep, OtherSteps DEF CkNext

THEOREM WalkInvariance == CkSpec => []WalkInv
<1>1. CkInit => WalkInv
  BY WalkInit
<1>2. WalkInv /\ [CkNext]_ckVars => WalkInv'
  BY WalkStep
<1> QED BY <1>1, <1>2, PTL DEF CkSpec

\* The walk keeps its types; in particular no read passes the end of a block.
THEOREM TypeCorrect == CkSpec => []CkTypeOK
<1>1. WalkInv => CkTypeOK
  BY DEF WalkInv
<1> QED BY <1>1, WalkInvariance, PTL

\* first_scan_job and first_scan_string_job report no address that does not
\* pass, is not aligned, or was not read.
THEOREM NoFalseMatch == CkSpec => []OnlyReportable
<1>1. WalkInv => OnlyReportable
  BY DEF WalkInv
<1> QED BY <1>1, WalkInvariance, PTL

\* The overlap never shows a match again: last_match has nothing to filter.
THEOREM NoItemTwice == CkSpec => []TestedOnce
<1>1. WalkInv => TestedOnce
  <2> SUFFICES ASSUME WalkInv, pc = "test" PROVE IsNew(off + i)
    BY DEF TestedOnce
  <2>1. CkTypeOK /\ off + i \in Nat /\ \A k \in DOMAIN out : out[k] < off + i
    BY DEF WalkInv, CkTypeOK, InBlock
  <2> QED BY <2>1, NothingAhead
<1> QED BY <1>1, WalkInvariance, PTL

-----------------------------------------------------------------------------
(* Completeness, in a region without holes and around holes that are apart. *)

\* When nothing is lost: there is no hole, or holes are apart and a read delivers what
\* precedes one.
Favourable == holes = {} \/ (tight /\ size > 1 /\ Apart)

\* Every item that should be reported and lies before y has been.
FoundBefore(y) == \A x \in Reportable : x < y => x \in Found

\* A read that is short stopped at the first byte of a hole.
AtHole == \E p \in holes : off + read = PAGE * p

\* A block starts where it can be read; its next item is the first that was not looked
\* at; behind it lie the items that end in it.
NoGap ==
  Favourable =>
    /\ pc = "read" /\ off < SIZE => ReadableAt(off)
    /\ pc \in {"read", "done"} => FoundBefore(off)
    /\ pc = "test" => FoundBefore(off + i)
    /\ pc = "next" => \A x \in Reportable : x + size <= off + read => x \in Found
    /\ pc \in {"test", "next"} =>
         /\ ok /\ read > 0 /\ ReadableRun(off, read) /\ (read = want \/ AtHole)
         /\ want = IF CHUNK <= SIZE - off THEN CHUNK ELSE SIZE - off
    /\ pc = "done" => off >= SIZE

CompleteInv == WalkInv /\ NoGap

\* The bytes of a page.
LEMMA PageBytes ==
  ASSUME NEW n \in Nat \ {0}, NEW p \in Nat, NEW y \in Nat, n * p <= y, y < n * p + n
  PROVE  y \div n = p
<1> DEFINE q == y \div n
<1>1. q \in Nat /\ n * q <= y /\ y < n * q + n
  BY Division
<1> HIDE DEF q
<1>2. ~(q < p)
  BY <1>1, MultiplesApart
<1>3. ~(p < q)
  BY <1>1, MultiplesApart
<1> QED BY <1>1, <1>2, <1>3 DEF q

\* A byte of another page than the one before it is the first of its page.
LEMMA PageStart ==
  ASSUME NEW n \in Nat \ {0}, NEW y \in Nat \ {0}, (y - 1) \div n # y \div n
  PROVE  y = n * (y \div n) /\ y \div n \in Nat
<1> DEFINE q == y \div n
           r == y % n
<1>0. y = n * q + r /\ q \in Nat /\ r \in 0..(n - 1)
  BY Division
<1> HIDE DEF q, r
<1>1. y = n * q + r /\ q \in Nat /\ r \in 0..(n - 1) /\ n * q \in Nat
  BY <1>0
<1>2. SUFFICES ASSUME r # 0 PROVE (y - 1) \div n = q
  BY <1>1 DEF q
<1>3. y - 1 \in Nat /\ n * q <= y - 1 /\ y - 1 < n * q + n
  BY <1>1, <1>2
<1> QED BY <1>1, <1>3, PageBytes

\* From a byte that can be read, a read delivers what it was asked for or what precedes a
\* hole.
LEMMA GoodRead ==
  ASSUME Favourable, NEW x \in Nat, ReadableAt(x), NEW n \in Nat \ {0}, PAGE \in Nat \ {0},
         NEW r \in ReadOutcome(x, n)
  PROVE  /\ r.ok /\ r.read \in 1..n
         /\ r.read = n \/ \E p \in holes : x + r.read = PAGE * p
<1>1. CASE ReadableRun(x, n)
  BY <1>1, Outcome
<1>2. CASE ~ReadableRun(x, n)
  <2>1. tight
    BY <1>2 DEF Favourable, ReadableRun, ReadableAt
  <2>2. /\ r.ok /\ r.read \in 0..n
        /\ ReadableRun(x, r.read) /\ ~ReadableRun(x, r.read + 1)
    BY <1>2, <2>1 DEF ReadOutcome
  <2> DEFINE y == x + r.read
  <2>3. y \in Nat /\ ~ReadableAt(y)
    BY <2>2 DEF ReadableRun
  <2>4. r.read # 0
    BY <2>3
  <2>5. y # 0 /\ ReadableAt(y - 1)
    BY <2>2, <2>4 DEF ReadableRun
  <2>6. y \div PAGE \in holes /\ (y - 1) \div PAGE # y \div PAGE
    BY <2>3, <2>5 DEF ReadableAt
  <2> HIDE DEF y
  <2>7. y = PAGE * (y \div PAGE)
    BY <2>3, <2>5, <2>6, PageStart
  <2> QED BY <2>2, <2>4, <2>6, <2>7 DEF y
<1> QED BY <1>1, <1>2

\* The items that should be reported are offsets, multiples of the size when
\* the scan is a fast one.
LEMMA ReportableType ==
  ASSUME CkTypeOK, NEW x \in Reportable
  PROVE  x \in Nat /\ x \in hit /\ x + size <= SIZE /\ (fast => x % size = 0)
<1>1. hit \subseteq Offsets /\ SIZE \in Nat
  BY Sizes, CkAssumption DEF CkTypeOK, CkAssumption
<1>2. Offsets \subseteq Nat
  BY <1>1 DEF Offsets
<1> QED BY <1>1, <1>2 DEF Reportable

\* No step of the walk changes what should be reported.
LEMMA ReportableFixed ==
  ASSUME UNCHANGED input PROVE Reportable' = Reportable
BY DEF input, Reportable, ReadableRun, ReadableAt

\* Between the start of a block and its first item there is none to report.
LEMMA ReadGap == CompleteInv /\ ReadBlock => NoGap'
<1> SUFFICES ASSUME CompleteInv, ReadBlock, Favourable PROVE NoGap'
  BY DEF ReadBlock, input, NoGap, Favourable, Apart
<1>t. CkTypeOK /\ size \in Nat \ {0} /\ off \in Nat /\ SIZE \in Nat /\ CHUNK \in Nat \ {0}
  BY Sizes DEF CompleteInv, WalkInv, CkTypeOK
<1>1. /\ off < SIZE /\ pc = "read"
      /\ want' = IF CHUNK <= SIZE - off THEN CHUNK ELSE SIZE - off
      /\ i' = Aligned(off) /\ UNCHANGED <<input, off, out>>
  BY DEF ReadBlock
<1>2. /\ ok' /\ read' \in 1..want' /\ pc' = "test" /\ ReadableRun(off, read')
      /\ read' = want' \/ AtHole'
  <2>1. PICK r \in ReadOutcome(off, want') :
          ok' = r.ok /\ read' = r.read
          /\ pc' = IF r.ok /\ r.read > 0 THEN "test" ELSE "next"
    BY DEF ReadBlock
  <2>2. want' \in Nat \ {0} /\ PAGE \in Nat \ {0}
    BY <1>t, <1>1, Sizes
  <2>3. ReadableAt(off)
    BY <1>1 DEF CompleteInv, NoGap
  <2>4. r.ok /\ r.read \in 1..want' /\ (r.read = want' \/ \E p \in holes : off + r.read = PAGE * p)
    BY <1>t, <2>2, <2>3, GoodRead
  <2>5. ReadableRun(off, r.read)
    BY <2>2, Outcome
  <2> QED BY <1>1, <2>1, <2>4, <2>5 DEF AtHole, input
<1>3. FoundBefore(off)
  BY <1>1 DEF CompleteInv, NoGap
<1>4. ASSUME NEW x \in Reportable, x < off + i' PROVE x \in Found
  <2>1. x \in Nat /\ (fast => x % size = 0)
    BY <1>t, ReportableType
  <2>2. Aligned(off) \in 0..(size - 1) /\ i' = Aligned(off)
    BY <1>t, <1>1, AlignedStart
  <2>3. off + i' \in Nat /\ off + i' < off + size
    BY <1>t, <2>2
  <2>4. fast => (off + i') % size = 0
    BY <1>t, <1>1, AlignedStart
  <2>5. fast => x < off
    BY <1>t, <1>4, <2>1, <2>3, <2>4, NoneBetween
  <2>6. ~fast => x < off
    <3>1. ~fast => i' = 0
      BY <1>t, <1>1, AlignedStart
    <3> QED BY <1>t, <1>4, <3>1
  <2>7. x < off
    BY <2>5, <2>6
  <2> QED BY <1>3, <2>7 DEF FoundBefore
<1>5. (ReadableRun(off, read))'
  BY <1>1, <1>2 DEF ReadableRun, ReadableAt, input
<1>6. FoundBefore(off + i)'
  BY <1>1, <1>4, ReportableFixed DEF FoundBefore, Found
<1>7. want' = (IF CHUNK <= SIZE - off THEN CHUNK ELSE SIZE - off)'
  BY <1>1
<1> QED BY <1>t, <1>1, <1>2, <1>5, <1>6, <1>7 DEF NoGap

\* Between two items of a block there is none to report.
LEMMA TestGap == CompleteInv /\ TestItem => NoGap'
<1> SUFFICES ASSUME CompleteInv, TestItem, Favourable PROVE NoGap'
  BY DEF TestItem, input, NoGap, Favourable, Apart
<1>t. /\ CkTypeOK /\ size \in Nat \ {0} /\ off \in Nat /\ i \in Nat
      /\ Stride \in Nat \ {0}
  BY Sizes DEF CompleteInv, WalkInv, CkTypeOK
<1>1. /\ pc = "test" /\ i + size <= read /\ i' = i + Stride
      /\ out' = IF (off + i) \in hit /\ IsNew(off + i) THEN Append(out, off + i) ELSE out
      /\ UNCHANGED <<input, pc, off, want, read, ok>>
  BY DEF TestItem
<1>2. /\ ok /\ read > 0 /\ ReadableRun(off, read) /\ (read = want \/ AtHole)
      /\ want = IF CHUNK <= SIZE - off THEN CHUNK ELSE SIZE - off
      /\ FoundBefore(off + i)
  BY <1>1 DEF CompleteInv, NoGap
<1>3. /\ fast => (off + i) % size = 0
      /\ \A k \in DOMAIN out : out[k] < off + i
  BY <1>1 DEF CompleteInv, WalkInv, InBlock
<1>4. IsNew(off + i)
  BY <1>t, <1>3, NothingAhead
<1>5. Found \subseteq Found' /\ ((off + i) \in hit => (off + i) \in Found')
  <2>1. CASE (off + i) \in hit
    <3>1. out' = Append(out, off + i)
      BY <1>1, <1>4, <2>1
    <3>2. /\ DOMAIN out' = 1..(Len(out) + 1) /\ out'[Len(out) + 1] = off + i
          /\ \A k \in DOMAIN out : k \in DOMAIN out' /\ out'[k] = out[k]
      BY <1>t, <3>1, OutIsSeq
    <3>3. Len(out) + 1 \in DOMAIN out'
      BY <1>t, <3>2, OutIsSeq
    <3> QED BY <3>2, <3>3 DEF Found
  <2>2. CASE (off + i) \notin hit
    BY <1>1, <2>2 DEF Found
  <2> QED BY <2>1, <2>2
<1>6. ASSUME NEW x \in Reportable, x < off + i' PROVE x \in Found'
  <2>1. x \in Nat /\ x \in hit /\ (fast => x % size = 0)
    BY <1>t, ReportableType
  <2>2. CASE x < off + i
    BY <1>2, <1>5, <2>2 DEF FoundBefore
  <2>3. CASE x = off + i
    BY <1>5, <2>1, <2>3
  <2>4. ~(off + i < x)
    <3> SUFFICES ASSUME off + i < x PROVE FALSE
      OBVIOUS
    <3>1. CASE fast
      <4>1. Stride = size
        BY <3>1 DEF Stride
      <4>2. x < (off + i) + size /\ off + i <= x /\ off + i \in Nat
        BY <1>t, <1>1, <1>6, <2>1, <4>1
      <4>3. off + i = x
        BY <1>t, <1>3, <2>1, <3>1, <4>2, SameMultiple
      <4> QED BY <1>t, <2>1, <4>3
    <3>2. CASE ~fast
      <4>1. Stride = 1
        BY <3>2 DEF Stride
      <4> QED BY <1>t, <1>1, <1>6, <2>1, <4>1
    <3> QED BY <1>t, <3>1, <3>2 DEF CkTypeOK
  <2> QED BY <1>t, <2>1, <2>2, <2>3, <2>4
<1>7. FoundBefore(off + i)'
  BY <1>1, <1>6, ReportableFixed DEF FoundBefore
<1>8. (ReadableRun(off, read))' /\ (read = want \/ AtHole)'
  BY <1>1, <1>2 DEF ReadableRun, ReadableAt, AtHole, input
<1> QED BY <1>1, <1>2, <1>7, <1>8 DEF NoGap

\* A full block is followed by one that begins where its last item did not, a short one
\* by the page after the hole: what lies between touches the hole.
LEMMA OtherGaps == CompleteInv /\ (EndOfBlock \/ NextBlock \/ EndOfRegion) => NoGap'
<1> SUFFICES ASSUME CompleteInv, EndOfBlock \/ NextBlock \/ EndOfRegion, Favourable PROVE NoGap'
  BY DEF EndOfBlock, NextBlock, EndOfRegion, input, NoGap, Favourable, Apart
<1>t. /\ CkTypeOK /\ size \in Nat \ {0} /\ off \in Nat /\ i \in Nat /\ SIZE \in Nat
      /\ CHUNK \in Nat \ {0} /\ size <= CHUNK /\ Step = CHUNK - size + 1 /\ want \in 0..CHUNK
      /\ read \in Nat /\ PAGE \in Nat \ {0}
  BY Sizes DEF CompleteInv, WalkInv, CkTypeOK
<1>1. UNCHANGED <<input, want, read, ok, i, out>> /\ Found' = Found /\ Reportable' = Reportable
  BY ReportableFixed DEF EndOfBlock, NextBlock, EndOfRegion, Found, input
<1>2. CASE EndOfBlock
  <2>1. pc = "test" /\ i + size > read /\ pc' = "next" /\ off' = off
    BY <1>2 DEF EndOfBlock
  <2>2. /\ ok /\ read > 0 /\ ReadableRun(off, read) /\ (read = want \/ AtHole)
        /\ want = IF CHUNK <= SIZE - off THEN CHUNK ELSE SIZE - off
        /\ FoundBefore(off + i)
    BY <2>1 DEF CompleteInv, NoGap
  <2>3. ASSUME NEW x \in Reportable, x + size <= off + read PROVE x \in Found
    <3>1. x \in Nat
      BY <1>t, ReportableType
    <3>2. x < off + i
      BY <1>t, <2>1, <2>3, <3>1
    <3> QED BY <2>2, <3>2 DEF FoundBefore
  <2>4. (ReadableRun(off, read))' /\ (read = want \/ AtHole)'
    BY <1>1, <2>1, <2>2 DEF ReadableRun, ReadableAt, AtHole, input
  <2>5. \A x \in Reportable' : x + size' <= off' + read' => x \in Found'
    BY <1>1, <2>1, <2>3 DEF input
  <2> QED BY <1>1, <2>1, <2>2, <2>4, <2>5 DEF NoGap
<1>3. CASE NextBlock
  <2>1. pc = "next" /\ pc' = "read" /\ ok
        /\ off' = IF ok /\ read = want
                  THEN off + Step
                  ELSE off + (IF read >= 1 THEN read ELSE 1) + PAGE
    BY <1>3 DEF NextBlock, CompleteInv, NoGap
  <2>2. /\ read > 0 /\ ReadableRun(off, read) /\ (read = want \/ AtHole)
        /\ want = IF CHUNK <= SIZE - off THEN CHUNK ELSE SIZE - off
        /\ \A x \in Reportable : x + size <= off + read => x \in Found
    BY <2>1 DEF CompleteInv, NoGap
  <2>3. (off' < SIZE => ReadableAt(off')) /\ \A x \in Reportable : x < off' => x \in Found
    <3>1. CASE read = want
      <4>1. off' = off + Step
        BY <2>1, <3>1
      <4>2. ASSUME NEW x \in Reportable, x < off' PROVE x \in Found
        <5>1. x \in Nat /\ x + size <= SIZE
          BY <1>t, ReportableType
        <5>2. x + size <= off + read
          BY <1>t, <2>2, <3>1, <4>1, <4>2, <5>1
        <5> QED BY <2>2, <5>2
      <4>3. ASSUME off' < SIZE PROVE ReadableAt(off')
        <5>1. CASE holes = {}
          BY <5>1 DEF ReadableAt
        <5>2. CASE size > 1
          <6>1. off' \in off..(off + read - 1)
            BY <1>t, <2>2, <3>1, <4>1, <4>3, <5>2
          <6> QED BY <2>2, <6>1 DEF ReadableRun
        <5> QED BY <5>1, <5>2 DEF Favourable
      <4> QED BY <4>2, <4>3
    <3>2. CASE read # want
      <4>1. PICK p \in holes : off + read = PAGE * p
        BY <2>2, <3>2 DEF AtHole
      <4>2. p \in Nat /\ p + 1 \in Nat /\ p + 1 \notin holes
        BY <1>t, <4>1, CkAssumption
           DEF CkTypeOK, CkAssumption, Favourable, Apart
      <4>3. off' = PAGE * p + PAGE /\ off' = PAGE * (p + 1) /\ PAGE * p \in Nat
        BY <1>t, <2>1, <2>2, <3>2, <4>1, <4>2
      <4>4. ReadableAt(off')
        <5>1. off' \in Nat /\ PAGE * (p + 1) <= off' /\ off' < PAGE * (p + 1) + PAGE
          BY <1>t, <4>2, <4>3
        <5>2. off' \div PAGE = p + 1
          BY <1>t, <4>2, <5>1, PageBytes
        <5> QED BY <4>2, <5>2 DEF ReadableAt
      <4>5. ASSUME NEW x \in Reportable, x < off', x \notin Found PROVE FALSE
        <5> DEFINE y == IF x < PAGE * p THEN PAGE * p ELSE x
        <5>1. x \in Nat /\ ReadableRun(x, size)
          BY <1>t, ReportableType DEF Reportable
        <5>2. x + size > PAGE * p
          BY <1>t, <2>2, <4>1, <4>3, <4>5, <5>1
        <5>3. y \in x..(x + size - 1) /\ y \in Nat /\ PAGE * p <= y /\ y < PAGE * p + PAGE
          BY <1>t, <4>3, <4>5, <5>1, <5>2
        <5> HIDE DEF y
        <5>4. y \div PAGE = p
          BY <1>t, <4>2, <5>3, PageBytes
        <5> QED BY <4>1, <5>1, <5>3, <5>4 DEF ReadableRun, ReadableAt
      <4> QED BY <4>4, <4>5
    <3> QED BY <3>1, <3>2
  <2>4. (pc = "read" /\ off < SIZE => ReadableAt(off))' /\ FoundBefore(off)'
    BY <1>1, <2>3 DEF ReadableAt, FoundBefore, input
  <2> QED BY <2>1, <2>4 DEF NoGap
<1>4. CASE EndOfRegion
  BY <1>1, <1>4 DEF EndOfRegion, CompleteInv, NoGap, FoundBefore, input
<1> QED BY <1>2, <1>3, <1>4

THEOREM CompleteInvariance == CkSpec => []CompleteInv
<1>1. CkInit => CompleteInv
  <2> SUFFICES ASSUME CkInit PROVE NoGap
    BY WalkInit DEF CompleteInv
  <2>1. CkTypeOK /\ off = 0 /\ pc = "read"
    BY WalkInit DEF WalkInv, CkInit
  <2>2. \A x \in Reportable : x \in Nat
    BY <2>1, ReportableType
  <2>3. ASSUME Favourable PROVE ReadableAt(0)
    <3>1. 0 \div PAGE = 0
      BY <2>1, Sizes, PageBytes
    <3> QED BY <2>3, <3>1 DEF Favourable, Apart, ReadableAt
  <2> QED BY <2>1, <2>2, <2>3 DEF NoGap, FoundBefore
<1>2. CompleteInv /\ [CkNext]_ckVars => CompleteInv'
  <2> SUFFICES ASSUME CompleteInv, [CkNext]_ckVars PROVE NoGap'
    BY WalkStep DEF CompleteInv
  <2>1. CASE UNCHANGED ckVars
    BY <2>1, ReportableFixed DEF ckVars, input, CompleteInv, NoGap, FoundBefore, Found, Favourable,
       Apart, ReadableAt, ReadableRun, AtHole
  <2> QED BY <2>1, ReadGap, TestGap, OtherGaps DEF CkNext
<1> QED BY <1>1, <1>2, PTL DEF CkSpec

\* A walk that is over has reported everything, if nothing is lost on the way.
LEMMA AllReported ==
  ASSUME CompleteInv, pc = "done", Favourable
  PROVE  Found = Reportable
<1>t. CkTypeOK /\ SIZE \in Nat /\ size \in Nat \ {0} /\ off \in Nat
  BY Sizes DEF CompleteInv, WalkInv, CkTypeOK
<1>1. off >= SIZE /\ FoundBefore(off)
  BY DEF CompleteInv, NoGap
<1>2. ASSUME NEW x \in Reportable PROVE x \in Found
  <2>1. x \in Nat /\ x + size <= SIZE
    BY <1>t, ReportableType
  <2>2. x < off
    BY <1>t, <1>1, <2>1
  <2> QED BY <1>1, <2>2 DEF FoundBefore
<1>3. Found \subseteq Reportable
  BY DEF CompleteInv, WalkInv, OnlyReportable
<1> QED BY <1>2, <1>3

\* read_chunked's overlap of item_size - 1 bytes is enough: in a region that can
\* be read throughout, no match that crosses a boundary of blocks is lost,
\* whatever the size of items, blocks and the region.
THEOREM NothingLost == CkSpec => []CompleteWithoutHoles
<1>1. CompleteInv => CompleteWithoutHoles
  BY AllReported DEF CompleteWithoutHoles, Favourable
<1> QED BY <1>1, CompleteInvariance, PTL

\* Nor is one lost at pages that cannot be read, as long as they are apart, the first page
\* is none of them, items are longer than a byte and a read delivers what precedes one:
\* the skip of read_chunked then always lands on the page after the hole, whatever the
\* sizes of page, block and region.
THEOREM HolesCostNothing == CkSpec => []CompleteAroundHoles
<1>1. CompleteInv => CompleteAroundHoles
  BY AllReported DEF CompleteAroundHoles, Favourable
<1> QED BY <1>1, CompleteInvariance, PTL

\* What first_scan_job reports is right, and reported once.
THEOREM ReportIsSound == CkSpec => []SoundReport
<1>1. OnlyReportable /\ TestedOnce => SoundReport
  BY DEF SoundReport
<1> QED BY <1>1, NoFalseMatch, NoItemTwice, PTL

=============================================================================
