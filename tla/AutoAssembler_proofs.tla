------------------------ MODULE AutoAssembler_proofs ------------------------
(***************************************************************************)
(* What is proved of the auto assembler, for any processes, module, blocks *)
(* and scripts: its types, for all scripts; and, for scripts of the form   *)
(* the documentation gives and one process to run them on, that the game   *)
(* survives, that Enable and Disable do what they report, and that the     *)
(* game's own blocks are left alone.                                       *)
(***************************************************************************)
EXTENDS MCAutoAssembler, WellFoundedInduction, TLAPS

\* Induction on a set of numbers.
LEMMA SetInduction ==
  ASSUME NEW S \in SUBSET Nat, 0 \in S, \A n \in S : n + 1 \in S
  PROVE  S = Nat
<1> SUFFICES ASSUME Nat \ S # {} PROVE FALSE
  OBVIOUS
<1> DEFINE R == OpToRel(<, Nat)
<1>1. IsWellFoundedOn(R, Nat)
  BY NatLessThanWellFounded
<1>2. \A p : p \in R <=> p \in Nat \X Nat /\ p[1] < p[2]
  BY DEF OpToRel
<1> HIDE DEF R
<1>3. \E m \in Nat \ S : \A k \in Nat \ S : ~(<<k, m>> \in R)
  BY <1>1, WFMin
<1>4. PICK m \in Nat \ S : \A k \in Nat \ S : ~(k < m)
  BY <1>2, <1>3
<1>5. m # 0 /\ m - 1 \in Nat
  OBVIOUS
<1>6. m - 1 \in S
  BY <1>4, <1>5
<1> QED
  BY <1>5, <1>6

\* A set of numbers with a member has a least one.
LEMMA MinIsMember ==
  ASSUME NEW S \in SUBSET Nat, S # {}
  PROVE  Min(S) \in S
<1> DEFINE R == OpToRel(<, Nat)
<1>1. IsWellFoundedOn(R, Nat)
  BY NatLessThanWellFounded
<1>2. \A p : p \in R <=> p \in Nat \X Nat /\ p[1] < p[2]
  BY DEF OpToRel
<1> HIDE DEF R
<1>3. \E m \in S : \A k \in S : ~(<<k, m>> \in R)
  BY <1>1, WFMin
<1>4. PICK m \in S : \A k \in S : ~(k < m)
  BY <1>2, <1>3
<1>5. \A k \in S : m <= k
  BY <1>4
<1> QED
  BY <1>5 DEF Min

-----------------------------------------------------------------------------
(* Types.                                                                  *)

\* The lines of all scripts, those that are laid out, those that are written.
OfScripts == UNION {ToSet(s.enable \o s.disable) : s \in Script}
Item      == {l \in OfScripts : l.op \in {"anchor"} \cup Emission}
Code      == {l \in OfScripts : l.op \in Emission}
Placement == [at : Nat \ {0}, line : Code]

\* What AsmState and run_section keep.
Table   == UNION {[S -> Nat \ {0}] : S \in SUBSET Names}
JobType == [pc : {"idle", "commands", "apply"}, section : {"enable", "disable"},
            lines : Seq(OfScripts), items : Seq(Item),
            placed : Seq(Placement), deferred : Seq(OfScripts)]
Alloced == [name : Names, at : Cave]
Lay     == [symbols : Table, placed : Seq(Placement), cursor : Nat, ok : BOOLEAN]

CellType == [op : {"o1", "o2", "nop", "data", "zero", "unmapped"} \cup Jumps, to : Nat]

\* A block is free exactly if none of its cells is mapped.
MemoryOK ==
  /\ mem \in [Proc -> [Addr -> CellType]]
  /\ owner \in [Proc -> [Cave -> {"free", "game", "assembler"}]]
  /\ \A p \in Proc, c \in Cave :
       owner[p][c] = "free" <=> \A a \in Cells(c) : mem[p][a].op = "unmapped"

JobOK ==
  /\ job \in JobType
  /\ job.pc = "idle" => job = Idle
  /\ job.pc # "idle" => attached \in Proc \ Blocked

StateOK == symbols \in Table /\ allocs \in Seq(Alloced)

UserOK ==
  /\ attached \in Proc \cup {NoProc}
  /\ script \in Script
  /\ outcome \in OutcomeType

Typed == MemoryOK /\ JobOK /\ StateOK /\ UserOK

LEMMA TypedIsTypeOK == Typed => AaTypeOK
<1> SUFFICES ASSUME Typed PROVE AaTypeOK
  OBVIOUS
<1> USE DEF Typed
<1>1. DOMAIN symbols \subseteq Names /\ Range(symbols) \subseteq Nat \ {0}
  BY DEF StateOK, Table, Range
<1>2. \A k \in DOMAIN allocs : allocs[k].name \in Names /\ allocs[k].at \in Cave
  <2>1. \A k \in DOMAIN allocs : allocs[k] \in Alloced
    BY DEF StateOK
  <2> QED
    BY <2>1 DEF Alloced
<1>3. \A k \in DOMAIN job.placed : job.placed[k].line.op \in Emission
  <2>1. job.placed \in Seq(Placement)
    BY DEF JobOK, JobType
  <2>2. \A k \in DOMAIN job.placed : job.placed[k] \in Placement
    BY <2>1
  <2> QED
    BY <2>2 DEF Placement, Code
<1>4. job.pc \in {"idle", "commands", "apply"} /\ (job.pc = "idle" => job = Idle)
  BY DEF JobOK, JobType
<1>5. MemoryOK
  OBVIOUS
<1>6. UserOK
  OBVIOUS
<1> QED
  BY <1>1, <1>2, <1>3, <1>4, <1>5, <1>6 DEF AaTypeOK, MemoryOK, UserOK, CellType

\* Blocks are apart from each other and from the module.
LEMMA Places ==
  /\ Addr \subseteq Nat \ {0} /\ Module \subseteq Addr
  /\ \A c \in Cave : /\ c \in Nat \ {0} /\ c \in Cells(c) /\ Cells(c) \subseteq Addr
                     /\ \A a \in Cells(c) : a \notin Module
  /\ \A c, d \in Cave : c # d => \A a \in Cells(c) : a \notin Cells(d)
  /\ \A p \in Proc : /\ Site[p] \in Module /\ Site[p] + 1 \in Module
                     /\ Site[p] \in Nat \ {0} /\ Site[p] + 1 # Site[p]
<1> USE AaAssumption
<1>1. \A c \in Cave : c \in Nat \ {0} /\ CAVE_SIZE \in Nat \ {0}
  OBVIOUS
<1>2. \A c \in Cave : Cells(c) \subseteq Nat \ {0} /\ c \in Cells(c)
  BY <1>1 DEF Cells
<1>3. Module \subseteq Nat \ {0}
  BY DEF Module
<1>4. Addr \subseteq Nat \ {0} /\ Module \subseteq Addr /\ \A c \in Cave : Cells(c) \subseteq Addr
  <2> HIDE AaAssumption
  <2> QED
    BY <1>2, <1>3 DEF Addr
<1>5. \A c \in Cave : \A a \in Cells(c) : a \notin Module
  OBVIOUS
<1>6. \A c, d \in Cave : c # d => \A a \in Cells(c) : a \notin Cells(d)
  OBVIOUS
<1>7. \A p \in Proc : Site[p] \in Module /\ Site[p] + 1 \in Module
  OBVIOUS
<1> HIDE AaAssumption
<1>8. ASSUME NEW p \in Proc PROVE Site[p] \in Nat \ {0} /\ Site[p] + 1 # Site[p]
  <2>1. Site[p] \in Nat \ {0}
    BY <1>3, <1>7
  <2> QED
    BY <2>1
<1> QED
  BY <1>1, <1>2, <1>4, <1>5, <1>6, <1>7, <1>8

\* Block c of p changes hands, and its cells become what op says.
BlockChange(p, c, o, op) ==
  /\ owner' = [owner EXCEPT ![p][c] = o]
  /\ mem' = [mem EXCEPT ![p] =
               [a \in Addr |-> IF a \in Cells(c) THEN Cell(op) ELSE @[a]]]

\* Nothing else changes.
LEMMA BlockChanges ==
  ASSUME MemoryOK, NEW p \in Proc, NEW c \in Cave, NEW o, NEW op, BlockChange(p, c, o, op)
  PROVE  /\ \A q \in Proc, a \in Addr :
              mem'[q][a] = IF q = p /\ a \in Cells(c) THEN Cell(op) ELSE mem[q][a]
         /\ \A q \in Proc, d \in Cave :
              owner'[q][d] = IF q = p /\ d = c THEN o ELSE owner[q][d]
<1>1. mem \in [Proc -> [Addr -> CellType]] /\ owner \in [Proc -> [Cave -> {"free", "game", "assembler"}]]
  BY DEF MemoryOK
<1>2. \A q \in Proc, d \in Cave : owner'[q][d] = IF q = p /\ d = c THEN o ELSE owner[q][d]
  BY <1>1 DEF BlockChange
<1>3. \A q \in Proc : mem'[q] = IF q = p THEN [a \in Addr |-> IF a \in Cells(c) THEN Cell(op) ELSE mem[p][a]]
                                ELSE mem[q]
  BY <1>1 DEF BlockChange
<1>4. ASSUME NEW q \in Proc, NEW a \in Addr
      PROVE  mem'[q][a] = IF q = p /\ a \in Cells(c) THEN Cell(op) ELSE mem[q][a]
  <2>1. CASE q = p
    BY <1>3, <2>1
  <2>2. CASE q # p
    BY <1>3, <2>2
  <2> QED
    BY <2>1, <2>2
<1> QED
  BY <1>2, <1>4

LEMMA BlockChangeOK ==
  ASSUME MemoryOK, NEW p \in Proc, NEW c \in Cave, NEW o \in {"free", "game", "assembler"},
         NEW op \in {"nop", "data", "zero", "unmapped"}, BlockChange(p, c, o, op),
         o = "free" <=> op = "unmapped"
  PROVE  MemoryOK'
<1>1. mem \in [Proc -> [Addr -> CellType]] /\ owner \in [Proc -> [Cave -> {"free", "game", "assembler"}]]
  BY DEF MemoryOK
<1>2. Cell(op) \in CellType
  BY DEF Cell, CellType
<1>3. owner' \in [Proc -> [Cave -> {"free", "game", "assembler"}]]
  BY <1>1 DEF BlockChange
<1>4. mem' \in [Proc -> [Addr -> CellType]]
  <2>1. [a \in Addr |-> IF a \in Cells(c) THEN Cell(op) ELSE mem[p][a]] \in [Addr -> CellType]
    BY <1>1, <1>2
  <2> QED
    BY <1>1, <2>1 DEF BlockChange
<1>5. ASSUME NEW q \in Proc, NEW d \in Cave
      PROVE  owner'[q][d] = "free" <=> \A a \in Cells(d) : mem'[q][a].op = "unmapped"
  <2>1. Cells(d) \subseteq Addr /\ d \in Cells(d)
    BY Places
  <2>2. CASE q = p /\ d = c
    <3>1. owner'[q][d] = o /\ \A a \in Cells(d) : mem'[q][a] = Cell(op)
      BY <2>1, <2>2, BlockChanges
    <3> QED
      BY <2>1, <3>1 DEF Cell
  <2>3. CASE ~(q = p /\ d = c)
    <3>1. owner'[q][d] = owner[q][d]
      BY <2>3, BlockChanges
    <3>2. \A a \in Cells(d) : ~(q = p /\ a \in Cells(c))
      BY <2>3, Places
    <3>3. \A a \in Cells(d) : mem'[q][a] = mem[q][a]
      BY <2>1, <3>2, BlockChanges
    <3>4. owner[q][d] = "free" <=> \A a \in Cells(d) : mem[q][a].op = "unmapped"
      BY DEF MemoryOK
    <3> QED
      BY <3>1, <3>3, <3>4
  <2> QED
    BY <2>2, <2>3
<1> QED
  BY <1>3, <1>4, <1>5 DEF MemoryOK

\* Symbols stay a table when a name is bound or removed.
LEMMA Binds ==
  ASSUME NEW f \in Table, NEW n \in Names, NEW a \in Nat \ {0}
  PROVE  /\ With(f, n, a) \in Table
         /\ DOMAIN With(f, n, a) = DOMAIN f \cup {n}
         /\ \A m \in DOMAIN f \cup {n} : With(f, n, a)[m] = IF m = n THEN a ELSE f[m]
<1>1. PICK S \in SUBSET Names : f \in [S -> Nat \ {0}]
  BY DEF Table
<1>2. With(f, n, a) \in [S \cup {n} -> Nat \ {0}] /\ S \cup {n} \in SUBSET Names
  BY <1>1 DEF With
<1> QED
  BY <1>1, <1>2 DEF Table, With

LEMMA Unbinds ==
  ASSUME NEW f \in Table, NEW n
  PROVE  [m \in DOMAIN f \ {n} |-> f[m]] \in Table
<1>1. PICK S \in SUBSET Names : f \in [S -> Nat \ {0}]
  BY DEF Table
<1>2. [m \in DOMAIN f \ {n} |-> f[m]] \in [S \ {n} -> Nat \ {0}] /\ S \ {n} \in SUBSET Names
  BY <1>1
<1> QED
  BY <1>2 DEF Table

LEMMA ConcatIs ==
  ASSUME NEW S, NEW s \in Seq(S), NEW t \in Seq(S)
  PROVE  /\ s \o t \in Seq(S) /\ Len(s \o t) = Len(s) + Len(t)
         /\ \A i \in 1..(Len(s) + Len(t)) :
              (s \o t)[i] = IF i <= Len(s) THEN s[i] ELSE t[i - Len(s)]
OBVIOUS

\* The first allocation of a name, and what is left without it.
LEMMA Positions ==
  ASSUME allocs \in Seq(Alloced), NEW name, Position(name) # 0
  PROVE  /\ Position(name) \in 1..Len(allocs) /\ allocs[Position(name)].name = name
         /\ allocs[Position(name)] \in Alloced
         /\ RemoveAt(allocs, Position(name)) \in Seq(Alloced)
         /\ Len(RemoveAt(allocs, Position(name))) = Len(allocs) - 1
         /\ \A i \in 1..(Len(allocs) - 1) : RemoveAt(allocs, Position(name))[i] =
              IF i < Position(name) THEN allocs[i] ELSE allocs[i + 1]
<1> DEFINE I == {i \in 1..Len(allocs) : allocs[i].name = name}
<1>1. Position(name) \in 1..Len(allocs) /\ allocs[Position(name)].name = name
  <2>1. Position(name) = IF I # {} THEN Min(I) ELSE 0
    BY DEF Position, SelectInSeq
  <2>2. I \in SUBSET Nat /\ I # {}
    BY <2>1
  <2>3. Min(I) \in I
    BY <2>2, MinIsMember
  <2> HIDE DEF I
  <2>4. Position(name) \in I
    BY <2>1, <2>2, <2>3
  <2> QED
    BY <2>4 DEF I
<1> DEFINE k == Position(name)
           before == SubSeq(allocs, 1, k - 1)
           behind == SubSeq(allocs, k + 1, Len(allocs))
<1> HIDE DEF k
<1>2. k \in 1..Len(allocs) /\ Len(allocs) \in Nat
  BY <1>1 DEF k
<1>3. /\ before \in Seq(Alloced) /\ Len(before) = k - 1
      /\ \A i \in 1..(k - 1) : before[i] = allocs[i]
  BY <1>2
<1>4. /\ behind \in Seq(Alloced) /\ Len(behind) = Len(allocs) - k
      /\ \A i \in 1..(Len(allocs) - k) : behind[i] = allocs[i + k]
  BY <1>2
<1> HIDE DEF before, behind
<1>5. /\ before \o behind \in Seq(Alloced) /\ Len(before \o behind) = Len(allocs) - 1
      /\ \A i \in 1..(Len(allocs) - 1) :
           (before \o behind)[i] = IF i <= k - 1 THEN before[i] ELSE behind[i - (k - 1)]
  <2>1. Len(before) + Len(behind) = Len(allocs) - 1
    BY <1>2, <1>3, <1>4
  <2> QED
    BY <1>3, <1>4, <2>1, ConcatIs
<1>6. ASSUME NEW i \in 1..(Len(allocs) - 1)
      PROVE  (before \o behind)[i] = IF i < k THEN allocs[i] ELSE allocs[i + 1]
  <2>1. CASE i < k
    <3>1. i \in 1..(k - 1)
      BY <1>2, <2>1
    <3> QED
      BY <1>3, <1>5, <2>1, <3>1
  <2>2. CASE ~(i < k)
    <3>1. i - (k - 1) \in 1..(Len(allocs) - k) /\ i - (k - 1) + k = i + 1
      BY <1>2, <2>2
    <3>2. ~(i <= k - 1)
      BY <1>2, <2>2
    <3>3. (before \o behind)[i] = behind[i - (k - 1)]
      BY <1>5, <3>2
    <3>4. behind[i - (k - 1)] = allocs[i - (k - 1) + k]
      BY <1>4, <3>1
    <3> QED
      BY <2>2, <3>1, <3>3, <3>4
  <2> QED
    BY <2>1, <2>2
<1>7. RemoveAt(allocs, Position(name)) = before \o behind
  BY DEF RemoveAt, before, behind, k
<1>8. allocs[k] \in Alloced
  BY <1>2
<1> QED
  BY <1>1, <1>5, <1>6, <1>7, <1>8 DEF k

-----------------------------------------------------------------------------
(* The layout: what it is after each item.                                 *)

Begun == [symbols |-> symbols, placed |-> <<>>, cursor |-> 0, ok |-> TRUE]

\* f is the layout after each of the items, as Laid computes it.
LaysOut(f) ==
  f = [n \in 0..Len(job.items) |-> IF n = 0 THEN Begun ELSE Place(f[n - 1], job.items[n])]

\* There is such a function, by induction on the items.
LEMMA LayoutExists ==
  ASSUME job.items \in Seq(Item)
  PROVE  \E f : LaysOut(f)
<1> DEFINE Body(f, n) == IF n = 0 THEN Begun ELSE Place(f[n - 1], job.items[n])
           Good(f, k) == \A n \in 0..k : f[n] = Body(f, n)
           S == {k \in Nat : \E f : Good(f, k)}
<1>1. 0 \in S
  <2>1. Good([n \in {0} |-> Begun], 0)
    OBVIOUS
  <2> QED
    BY <2>1
<1>2. ASSUME NEW k \in S PROVE k + 1 \in S
  <2>1. PICK f : Good(f, k)
    OBVIOUS
  <2> DEFINE g == [n \in 0..(k + 1) |-> Body(f, n)]
  <2>2. \A n \in 0..k : g[n] = f[n]
    BY <2>1
  <2>3. ASSUME NEW n \in 0..(k + 1) PROVE g[n] = Body(g, n)
    <3>1. CASE n = 0
      BY <3>1
    <3>2. CASE n # 0
      <4>1. n - 1 \in 0..k
        BY <3>2
      <4>2. g[n] = Body(f, n)
        OBVIOUS
      <4>3. g[n - 1] = f[n - 1]
        BY <2>2, <4>1
      <4> HIDE DEF g
      <4> QED
        BY <4>2, <4>3
    <3> QED
      BY <3>1, <3>2
  <2>4. Good(g, k + 1)
    BY <2>3
  <2> HIDE DEF g, Good
  <2> QED
    BY <2>4
<1> HIDE DEF S
<1>3. S = Nat
  BY <1>1, <1>2, SetInduction DEF S
<1> DEFINE N == Len(job.items)
<1>4. N \in Nat
  OBVIOUS
<1>5. PICK f : Good(f, N)
  BY <1>3, <1>4 DEF S
<1> DEFINE h == [n \in 0..N |-> f[n]]
<1>6. h = [n \in 0..N |-> Body(h, n)]
  <2>1. ASSUME NEW n \in 0..N PROVE f[n] = Body(h, n)
    <3>1. CASE n = 0
      BY <1>5, <3>1
    <3>2. CASE n # 0
      <4>1. n - 1 \in 0..N
        BY <1>4, <3>2
      <4>2. h[n - 1] = f[n - 1]
        BY <4>1
      <4> HIDE DEF h
      <4> QED
        BY <1>5, <4>2
    <3> QED
      BY <3>1, <3>2
  <2> QED
    BY <2>1
<1> QED
  BY <1>6 DEF LaysOut

\* It is the one Laid takes.
LEMMA LaidIs ==
  ASSUME job.items \in Seq(Item)
  PROVE  \E f : /\ f[0] = Begun /\ Laid = f[Len(job.items)]
                /\ \A n \in 1..Len(job.items) : f[n] = Place(f[n - 1], job.items[n])
<1> DEFINE after == CHOOSE f : LaysOut(f)
<1>1. Laid = after[Len(job.items)]
  BY DEF Laid, LaysOut, Begun
<1>2. LaysOut(after)
  BY LayoutExists
<1> HIDE DEF after
<1>3. Len(job.items) \in Nat
  OBVIOUS
<1>4. after[0] = Begun
  BY <1>2, <1>3 DEF LaysOut
<1>5. ASSUME NEW n \in 1..Len(job.items)
      PROVE  after[n] = Place(after[n - 1], job.items[n])
  <2>1. n \in 0..Len(job.items) /\ n # 0
    BY <1>3
  <2> QED
    BY <1>2, <2>1 DEF LaysOut
<1> QED
  BY <1>1, <1>4, <1>5

\* Each item leaves a layout of the right type.
LEMMA PlaceTyped ==
  ASSUME NEW l \in Lay, NEW line \in Item
  PROVE  Place(l, line) \in Lay
<1>1. /\ l.symbols \in Table /\ l.placed \in Seq(Placement) /\ l.cursor \in Nat
      /\ l.ok \in BOOLEAN
  BY DEF Lay
<1>2. line.name \in Names
  BY DEF Item, OfScripts, Names
<1>3. CASE ~l.ok
  BY <1>3 DEF Place
<1>4. CASE l.ok /\ line.op = "anchor"
  <2>1. CASE line.name \in DOMAIN l.symbols
    <3>1. l.symbols[line.name] \in Nat
      BY <1>1, <2>1 DEF Table
    <3> QED
      BY <1>4, <2>1, <3>1 DEF Place, Anchor, Lay
  <2>2. CASE line.name \notin DOMAIN l.symbols /\ l.cursor # 0
    <3>1. With(l.symbols, line.name, l.cursor) \in Table
      BY <1>1, <1>2, <2>2, Binds
    <3> QED
      BY <1>4, <2>2, <3>1 DEF Place, Anchor, Lay
  <2>3. CASE line.name \notin DOMAIN l.symbols /\ l.cursor = 0
    BY <1>4, <2>3 DEF Place, Anchor, Lay
  <2> QED
    BY <2>1, <2>2, <2>3
<1>5. CASE l.ok /\ line.op # "anchor"
  <2>1. CASE l.cursor = 0
    BY <1>5, <2>1 DEF Place, Lay
  <2>2. CASE l.cursor # 0
    <3>1. line \in Code
      BY <1>5 DEF Item, Code
    <3>2. [at |-> l.cursor, line |-> line] \in Placement
      BY <1>1, <2>2, <3>1 DEF Placement
    <3>3. Append(l.placed, [at |-> l.cursor, line |-> line]) \in Seq(Placement)
      BY <1>1, <3>2
    <3>4. l.cursor + LineSize(line) \in Nat
      BY <1>1 DEF LineSize
    <3> QED
      BY <1>5, <2>2, <3>3, <3>4 DEF Place, Lay
  <2> QED
    BY <2>1, <2>2
<1> QED
  BY <1>3, <1>4, <1>5

\* They all have the right type, by induction on the items.
LEMMA LaidSteps ==
  ASSUME job.items \in Seq(Item), symbols \in Table
  PROVE  \E f : /\ f[0] = Begun /\ Laid = f[Len(job.items)]
                /\ \A n \in 1..Len(job.items) : f[n] = Place(f[n - 1], job.items[n])
                /\ \A n \in 0..Len(job.items) : f[n] \in Lay
<1>1. PICK f : /\ f[0] = Begun /\ Laid = f[Len(job.items)]
               /\ \A n \in 1..Len(job.items) : f[n] = Place(f[n - 1], job.items[n])
  BY LaidIs
<1> DEFINE S == {n \in Nat : n <= Len(job.items) => f[n] \in Lay}
<1>2. 0 \in S
  <2>1. Begun \in Lay
    BY DEF Begun, Lay
  <2> QED
    BY <1>1, <2>1
<1>3. ASSUME NEW n \in S PROVE n + 1 \in S
  <2> SUFFICES ASSUME n + 1 <= Len(job.items) PROVE f[n + 1] \in Lay
    OBVIOUS
  <2>1. n + 1 \in 1..Len(job.items) /\ n + 1 - 1 = n
    OBVIOUS
  <2>2. f[n + 1] = Place(f[n], job.items[n + 1])
    BY <1>1, <2>1
  <2>3. job.items[n + 1] \in Item
    BY <2>1
  <2> QED
    BY <2>2, <2>3, PlaceTyped
<1> HIDE DEF S
<1>4. S = Nat
  BY <1>2, <1>3, SetInduction DEF S
<1>5. \A n \in 0..Len(job.items) : f[n] \in Lay
  BY <1>4 DEF S
<1> QED
  BY <1>1, <1>5

LEMMA LaidTyped ==
  ASSUME job.items \in Seq(Item), symbols \in Table
  PROVE  Laid \in Lay
<1>1. PICK f : Laid = f[Len(job.items)] /\ \A n \in 0..Len(job.items) : f[n] \in Lay
  BY LaidSteps
<1>2. Len(job.items) \in 0..Len(job.items)
  OBVIOUS
<1> QED
  BY <1>1, <1>2

-----------------------------------------------------------------------------
(* Every step keeps the types.                                             *)

LEMMA PartsOf ==
  ASSUME NEW S, NEW T, NEW s \in Seq(S), NEW t \in Seq(S), ToSet(s \o t) \subseteq T
  PROVE  s \in Seq(T) /\ t \in Seq(T)
<1> DEFINE m == Len(s)
           n == Len(t)
<1>1. m \in Nat /\ n \in Nat /\ Len(s \o t) = m + n /\ DOMAIN (s \o t) = 1..(m + n)
  OBVIOUS
<1>2. \A i \in 1..(m + n) : (s \o t)[i] = IF i <= m THEN s[i] ELSE t[i - m]
  BY ConcatIs
<1>3. \A i \in 1..(m + n) : (s \o t)[i] \in T
  BY <1>1 DEF ToSet
<1>4. s = [i \in 1..m |-> s[i]] /\ t = [i \in 1..n |-> t[i]]
  OBVIOUS
<1> HIDE DEF m, n
<1>5. ASSUME NEW i \in 1..m PROVE s[i] \in T
  <2>1. i \in 1..(m + n) /\ i <= m
    BY <1>1
  <2> QED
    BY <1>2, <1>3, <2>1
<1>6. ASSUME NEW i \in 1..n PROVE t[i] \in T
  <2> DEFINE j == i + m
  <2>1. j \in 1..(m + n) /\ ~(j <= m) /\ j - m = i
    BY <1>1
  <2> HIDE DEF j
  <2>2. (s \o t)[j] = t[j - m] /\ (s \o t)[j] \in T
    BY <1>2, <1>3, <2>1
  <2> QED
    BY <2>1, <2>2
<1> QED
  BY <1>1, <1>4, <1>5, <1>6

LEMMA ScriptLines ==
  /\ OfScripts \subseteq ScriptLine
  /\ \A s \in Script : s["enable"] \in Seq(OfScripts) /\ s["disable"] \in Seq(OfScripts)
<1>1. ASSUME NEW s \in Script
      PROVE  /\ s.enable \o s.disable \in Seq(ScriptLine)
             /\ s.enable \in Seq(OfScripts) /\ s.disable \in Seq(OfScripts)
  <2>1. s.enable \in Seq(ScriptLine) /\ s.disable \in Seq(ScriptLine)
    BY AaAssumption
  <2>2. ToSet(s.enable \o s.disable) \subseteq OfScripts
    BY DEF OfScripts
  <2> QED
    BY <2>1, <2>2, PartsOf, ConcatIs
<1>2. ASSUME NEW l \in OfScripts PROVE l \in ScriptLine
  <2>1. PICK s \in Script : l \in ToSet(s.enable \o s.disable)
    BY DEF OfScripts
  <2> DEFINE all == s.enable \o s.disable
  <2>2. all \in Seq(ScriptLine)
    BY <1>1
  <2>3. PICK i \in DOMAIN all : l = all[i]
    BY <2>1 DEF ToSet
  <2> HIDE DEF all
  <2> QED
    BY <2>2, <2>3
<1> QED
  BY <1>1, <1>2

LEMMA IdleTyped == Idle \in JobType /\ Idle.pc = "idle"
<1>1. <<>> \in Seq(OfScripts) /\ <<>> \in Seq(Item) /\ <<>> \in Seq(Placement)
  OBVIOUS
<1> QED
  BY <1>1 DEF Idle, JobType

\* What the parts of a running job are.
LEMMA JobParts ==
  ASSUME JobOK
  PROVE  /\ job.pc \in {"idle", "commands", "apply"} /\ job.section \in {"enable", "disable"}
         /\ job.lines \in Seq(OfScripts) /\ job.items \in Seq(Item)
         /\ job.placed \in Seq(Placement) /\ job.deferred \in Seq(OfScripts)
         /\ job.pc # "idle" => attached \in Proc \ Blocked /\ attached \in Proc
BY DEF JobOK, JobType

LEMMA Outcomes ==
  /\ NoOutcome \in OutcomeType /\ NoOutcome.status = "none"
  /\ RunFailed \in OutcomeType /\ RunFailed.status = "failed"
  /\ \A section : \A log \in {"steps", "(secao vazia)"} :
       /\ RunDone(section, log) \in OutcomeType /\ RunDone(section, log).log = log
       /\ RunDone(section, log).status = IF section = "enable" THEN "enabled" ELSE "disabled"
BY DEF NoOutcome, RunFailed, RunDone, OutcomeType

LEMMA InitTyped == AaInit => Typed
<1> SUFFICES ASSUME AaInit PROVE Typed
  OBVIOUS
<1> USE DEF AaInit
<1>1. MemoryOK
  <2>1. \A p \in Proc, a \in Addr : mem[p][a] \in CellType
    BY DEF Cell, CellType
  <2>2. mem \in [Proc -> [Addr -> CellType]]
    BY <2>1
  <2>3. owner \in [Proc -> [Cave -> {"free", "game", "assembler"}]]
    OBVIOUS
  <2>4. ASSUME NEW p \in Proc, NEW c \in Cave, NEW a \in Cells(c)
        PROVE  mem[p][a].op = "unmapped"
    <3>1. a \in Addr /\ a \notin Module /\ a # Site[p] /\ a # Site[p] + 1
      BY Places
    <3> QED
      BY <3>1 DEF Cell
  <2> QED
    BY <2>2, <2>3, <2>4 DEF MemoryOK
<1>2. JobOK
  BY IdleTyped DEF JobOK
<1>3. StateOK
  <2>1. symbols \in [{} -> Nat \ {0}] /\ {} \in SUBSET Names
    OBVIOUS
  <2>2. symbols \in Table
    BY <2>1 DEF Table
  <2> QED
    BY <2>2 DEF StateOK
<1>4. UserOK
  BY Outcomes DEF UserOK
<1> QED
  BY <1>1, <1>2, <1>3, <1>4 DEF Typed

\* Whatever the user does between two runs.
LEMMA UserTyped ==
  ASSUME Typed,
         \/ \E p \in Proc : Attach(p)
         \/ \E s \in Script : ChangeScript(s)
         \/ \E section \in {"enable", "disable"} : RunSection(section)
  PROVE  Typed'
<1> USE DEF Typed
<1>1. ASSUME NEW p \in Proc, Attach(p) PROVE Typed'
  <2>1. MemoryOK' /\ StateOK'
    BY <1>1 DEF Attach, asm, MemoryOK, StateOK
  <2>2. JobOK'
    BY <1>1 DEF Attach, JobOK
  <2>3. UserOK'
    BY <1>1, Outcomes DEF Attach, UserOK
  <2> QED
    BY <2>1, <2>2, <2>3
<1>2. ASSUME NEW s \in Script, ChangeScript(s) PROVE Typed'
  <2>1. MemoryOK' /\ StateOK'
    BY <1>2 DEF ChangeScript, asm, MemoryOK, StateOK
  <2>2. JobOK'
    BY <1>2 DEF ChangeScript, JobOK
  <2>3. UserOK'
    BY <1>2 DEF ChangeScript, UserOK
  <2> QED
    BY <2>1, <2>2, <2>3
<1>3. ASSUME NEW section \in {"enable", "disable"}, RunSection(section) PROVE Typed'
  <2>1. MemoryOK' /\ StateOK' /\ UserOK'
    <3>1. outcome' = NoOutcome \/ outcome' = RunDone(section, "(secao vazia)")
      BY <1>3 DEF RunSection
    <3>2. outcome' \in OutcomeType
      BY <3>1, Outcomes
    <3>3. UNCHANGED <<mem, owner, attached, script, symbols, allocs>>
      BY <1>3 DEF RunSection, user, asm
    <3> QED
      BY <3>2, <3>3 DEF MemoryOK, StateOK, UserOK
  <2>2. attached' \in Proc \ Blocked
    BY <1>3 DEF RunSection, user
  <2>3. job' \in JobType /\ (job'.pc = "idle" => job' = Idle)
    <3>1. CASE job' = job
      BY <3>1 DEF JobOK
    <3>2. CASE job' # job
      <4>1. job' = [Idle EXCEPT !.pc = "commands", !.section = section,
                                !.lines = script[section]]
        BY <1>3, <3>2 DEF RunSection
      <4>2. script[section] \in Seq(OfScripts)
        BY ScriptLines DEF UserOK
      <4> QED
        BY <4>1, <4>2, IdleTyped DEF JobType
    <3> QED
      BY <3>1, <3>2
  <2> QED
    BY <2>1, <2>2, <2>3 DEF JobOK
<1> QED
  BY <1>1, <1>2, <1>3

\* An error ends the run, and its types are those of the state before.
LEMMA FailTyped == Typed /\ Fail => Typed'
<1> SUFFICES ASSUME Typed, Fail PROVE Typed'
  OBVIOUS
<1>1. MemoryOK' /\ StateOK' /\ UserOK'
  <2>1. outcome' \in OutcomeType
    BY Outcomes DEF Fail
  <2> QED
    BY <2>1 DEF Typed, Fail, user, asm, MemoryOK, StateOK, UserOK
<1>2. JobOK'
  BY IdleTyped DEF Fail, JobOK
<1> QED
  BY <1>1, <1>2 DEF Typed

\* A line that was taken leaves a job of the right type.
LEMMA LineDoneTyped ==
  ASSUME JobOK, job.pc = "commands", job.lines # <<>>
  PROVE  /\ LineDone \in JobType /\ LineDone.pc = "commands" /\ Line \in OfScripts
         /\ LineDone.deferred = job.deferred /\ LineDone.items = job.items
         /\ Line.name \in Names
<1>1. job.lines \in Seq(OfScripts) /\ job \in JobType
  BY DEF JobOK, JobType
<1>2. Tail(job.lines) \in Seq(OfScripts) /\ Head(job.lines) \in OfScripts
  BY <1>1
<1>3. Line.name \in Names
  BY <1>2 DEF OfScripts, Names, Line
<1> QED
  BY <1>1, <1>2, <1>3 DEF LineDone, Line, JobType

LEMMA AllocTyped == Typed /\ Alloc => Typed'
<1> SUFFICES ASSUME Typed, Alloc PROVE Typed'
  OBVIOUS
<1> USE DEF Typed
<1>1. /\ job.pc = "commands" /\ job.lines # <<>> /\ job' = LineDone
      /\ UNCHANGED <<attached, script, outcome>>
  BY DEF Alloc, Doing, user
<1>2. attached \in Proc
  BY <1>1 DEF JobOK
<1>3. PICK c \in AllocChoice :
        /\ BlockChange(attached, c, "assembler", "zero")
        /\ symbols' = With(symbols, Line.name, c)
        /\ allocs' = Append(allocs, [name |-> Line.name, at |-> c])
  BY DEF Alloc, BlockChange
<1>4. c \in Cave /\ c \in Nat \ {0}
  BY Places DEF AllocChoice, Free
<1>5. MemoryOK'
  BY <1>2, <1>3, <1>4, BlockChangeOK
<1>6. StateOK'
  <2>1. Line.name \in Names
    BY <1>1, LineDoneTyped
  <2>2. symbols' \in Table
    BY <1>3, <1>4, <2>1, Binds DEF StateOK
  <2>3. [name |-> Line.name, at |-> c] \in Alloced
    BY <1>4, <2>1 DEF Alloced
  <2> QED
    BY <1>3, <2>2, <2>3 DEF StateOK
<1>7. JobOK'
  BY <1>1, LineDoneTyped DEF JobOK
<1>8. UserOK'
  BY <1>1 DEF UserOK
<1> QED
  BY <1>5, <1>6, <1>7, <1>8

LEMMA ScanTyped == Typed /\ Scan => Typed'
<1> SUFFICES ASSUME Typed, Scan PROVE Typed'
  OBVIOUS
<1> USE DEF Typed
<1>1. /\ job.pc = "commands" /\ job.lines # <<>> /\ job' = LineDone
      /\ Found # {} /\ symbols' = With(symbols, Line.name, Min(Found))
      /\ UNCHANGED <<mem, owner, attached, script, allocs, outcome>>
  BY DEF Scan, Doing, user
<1>2. MemoryOK' /\ UserOK'
  BY <1>1 DEF MemoryOK, UserOK
<1>3. Found \subseteq Nat \ {0}
  BY Places DEF Found
<1>4. Min(Found) \in Nat \ {0}
  <2>1. Found \in SUBSET Nat
    BY <1>3
  <2> QED
    BY <1>1, <1>3, <2>1, MinIsMember
<1>5. StateOK'
  <2>1. Line.name \in Names
    BY <1>1, LineDoneTyped
  <2> QED
    BY <1>1, <1>4, <2>1, Binds DEF StateOK
<1>6. JobOK'
  BY <1>1, LineDoneTyped DEF JobOK
<1> QED
  BY <1>2, <1>5, <1>6

LEMMA DeferTyped == Typed /\ (Defer \/ Collect) => Typed'
<1> SUFFICES ASSUME Typed, Defer \/ Collect PROVE Typed'
  OBVIOUS
<1> USE DEF Typed
<1>1. /\ job.pc = "commands" /\ job.lines # <<>>
      /\ UNCHANGED <<mem, owner, attached, script, symbols, allocs, outcome>>
  BY DEF Defer, Collect, Doing, user, asm
<1>2. MemoryOK' /\ UserOK' /\ StateOK'
  BY <1>1 DEF MemoryOK, UserOK, StateOK
<1>3. LineDone \in JobType /\ LineDone.pc = "commands" /\ Line \in OfScripts
  BY <1>1, LineDoneTyped
<1>4. job' \in JobType /\ job'.pc = "commands"
  <2>1. CASE Defer
    <3>1. job' = [LineDone EXCEPT !.deferred = Append(@, Line)]
      BY <2>1 DEF Defer
    <3>2. Append(LineDone.deferred, Line) \in Seq(OfScripts)
      BY <1>3 DEF JobType
    <3> QED
      BY <1>3, <3>1, <3>2 DEF JobType
  <2>2. CASE Collect
    <3>1. job' = [LineDone EXCEPT !.items = Append(@, Line)]
      BY <2>2 DEF Collect
    <3>2. Line \in Item
      BY <1>3, <2>2 DEF Collect, Doing, Item
    <3>3. Append(LineDone.items, Line) \in Seq(Item)
      BY <1>3, <3>2 DEF JobType
    <3> QED
      BY <1>3, <3>1, <3>3 DEF JobType
  <2> QED
    BY <2>1, <2>2
<1>5. JobOK'
  BY <1>1, <1>4 DEF JobOK
<1> QED
  BY <1>2, <1>5

LEMMA LayoutTyped == Typed /\ Layout => Typed'
<1> SUFFICES ASSUME Typed, Layout PROVE Typed'
  OBVIOUS
<1> USE DEF Typed
<1>1. /\ job.pc = "commands" /\ symbols' = Laid.symbols
      /\ job' = IF Laid.ok THEN [job EXCEPT !.pc = "apply", !.items = <<>>, !.placed = Laid.placed]
                ELSE Idle
      /\ outcome' = IF Laid.ok THEN outcome ELSE RunFailed
      /\ UNCHANGED <<mem, owner, attached, script, allocs>>
  BY DEF Layout, user
<1>2. Laid \in Lay
  <2>1. job.items \in Seq(Item) /\ symbols \in Table
    BY JobParts DEF StateOK
  <2> QED
    BY <2>1, LaidTyped
<1>3. Laid.symbols \in Table /\ Laid.placed \in Seq(Placement)
  BY <1>2 DEF Lay
<1>4. MemoryOK'
  BY <1>1 DEF MemoryOK
<1>5. StateOK'
  BY <1>1, <1>3 DEF StateOK
<1>6. UserOK'
  BY <1>1, Outcomes DEF UserOK
<1>7. JobOK'
  <2>1. CASE Laid.ok
    <3>1. job' = [job EXCEPT !.pc = "apply", !.items = <<>>, !.placed = Laid.placed]
      BY <1>1, <2>1
    <3>2. <<>> \in Seq(Item)
      OBVIOUS
    <3>3. job' \in JobType /\ job'.pc = "apply"
      BY <1>3, <3>1, <3>2 DEF JobOK, JobType
    <3> QED
      BY <1>1, <3>3 DEF JobOK
  <2>2. CASE ~Laid.ok
    BY <1>1, <2>2, IdleTyped DEF JobOK
  <2> QED
    BY <2>1, <2>2
<1> QED
  BY <1>4, <1>5, <1>6, <1>7

\* What a write leaves in each cell.
LEMMA WriteIs ==
  ASSUME MemoryOK, attached \in Proc, Write
  PROVE  \A q \in Proc, a \in Addr :
           mem'[q][a] = IF q = attached /\ a \in Span THEN CellWritten(a) ELSE mem[q][a]
<1>1. mem \in [Proc -> [Addr -> CellType]]
  BY DEF MemoryOK
<1>2. mem' = [mem EXCEPT ![attached] = [a \in Addr |-> IF a \in Span THEN CellWritten(a) ELSE @[a]]]
  BY DEF Write
<1>3. ASSUME NEW q \in Proc, NEW a \in Addr
      PROVE  mem'[q][a] = IF q = attached /\ a \in Span THEN CellWritten(a) ELSE mem[q][a]
  <2>1. CASE q = attached
    BY <1>1, <1>2, <2>1
  <2>2. CASE q # attached
    BY <1>1, <1>2, <2>2
  <2> QED
    BY <2>1, <2>2
<1> QED
  BY <1>3

\* The entry that is written next.
LEMMA EntryTyped ==
  ASSUME JobOK, Writing
  PROVE  /\ NextPlaced \in Placement /\ NextPlaced.at \in Nat \ {0} /\ NextPlaced.line.op \in Emission
         /\ Tail(job.placed) \in Seq(Placement)
<1>1. job.placed \in Seq(Placement) /\ job.placed # <<>>
  BY JobParts DEF Writing
<1>2. Head(job.placed) \in Placement /\ Tail(job.placed) \in Seq(Placement)
  BY <1>1
<1> QED
  BY <1>2 DEF NextPlaced, Placement, Code

LEMMA WrittenTyped ==
  ASSUME JobOK, StateOK, Writing, Resolves, NEW a
  PROVE  CellWritten(a) \in CellType /\ CellWritten(a).op # "unmapped"
<1>1. NextPlaced.line.op \in {"db", "nop"} \cup Jumps
  BY EntryTyped DEF Emission
<1>2. CASE NextPlaced.line.op \in Jumps
  <2>1. symbols[NextPlaced.line.name] \in Nat
    BY <1>2 DEF Resolves, StateOK, Table
  <2>2. CellWritten(a) = [op |-> NextPlaced.line.op, to |-> symbols[NextPlaced.line.name]]
    BY <1>2 DEF CellWritten, Jumps
  <2> QED
    BY <1>2, <2>1, <2>2 DEF CellType, Jumps
<1>3. CASE NextPlaced.line.op = "db"
  <2>1. CellWritten(a) = Cell(IF a = NextPlaced.at THEN "o1" ELSE "o2")
    BY <1>3 DEF CellWritten, Jumps
  <2> QED
    BY <2>1 DEF Cell, CellType
<1>4. CASE NextPlaced.line.op = "nop"
  <2>1. CellWritten(a) = Cell("nop")
    BY <1>4 DEF CellWritten, Jumps
  <2> QED
    BY <2>1 DEF Cell, CellType
<1> QED
  BY <1>1, <1>2, <1>3, <1>4

LEMMA WriteTyped == Typed /\ Write => Typed'
<1> SUFFICES ASSUME Typed, Write PROVE Typed'
  OBVIOUS
<1> USE DEF Typed
<1>1. /\ Writing /\ Resolves /\ Mapped /\ job' = [job EXCEPT !.placed = Tail(@)]
      /\ UNCHANGED <<owner, attached, script, symbols, allocs, outcome>>
  BY DEF Write, user, asm
<1>2. attached \in Proc
  BY <1>1, JobParts DEF Writing
<1>3. StateOK' /\ UserOK'
  BY <1>1 DEF StateOK, UserOK
<1>4. JobOK'
  BY <1>1, EntryTyped DEF JobOK, JobType, Writing
<1>5. \A a : CellWritten(a) \in CellType /\ CellWritten(a).op # "unmapped"
  BY <1>1, WrittenTyped
<1>6. mem' \in [Proc -> [Addr -> CellType]]
  <2>1. mem \in [Proc -> [Addr -> CellType]]
    BY DEF MemoryOK
  <2>2. [a \in Addr |-> IF a \in Span THEN CellWritten(a) ELSE mem[attached][a]] \in [Addr -> CellType]
    BY <1>2, <1>5, <2>1
  <2> QED
    BY <1>2, <2>1, <2>2 DEF Write
<1>7. ASSUME NEW q \in Proc, NEW d \in Cave
      PROVE  owner'[q][d] = "free" <=> \A a \in Cells(d) : mem'[q][a].op = "unmapped"
  <2>1. owner[q][d] = "free" <=> \A a \in Cells(d) : mem[q][a].op = "unmapped"
    BY DEF MemoryOK
  <2>2. ASSUME NEW a \in Cells(d)
        PROVE  mem'[q][a].op = "unmapped" <=> mem[q][a].op = "unmapped"
    <3>1. a \in Addr
      BY Places
    <3>2. CASE q = attached /\ a \in Span
      <4>1. mem[q][a].op # "unmapped"
        BY <1>1, <3>2 DEF Mapped
      <4>2. mem'[q][a] = CellWritten(a)
        BY <1>2, <3>1, <3>2, WriteIs
      <4> QED
        BY <1>5, <4>1, <4>2
    <3>3. CASE ~(q = attached /\ a \in Span)
      BY <1>2, <3>1, <3>3, WriteIs
    <3> QED
      BY <3>2, <3>3
  <2> QED
    BY <1>1, <2>1, <2>2
<1>8. MemoryOK'
  BY <1>1, <1>6, <1>7 DEF MemoryOK
<1> QED
  BY <1>3, <1>4, <1>8

\* What is freed is a block, and the other allocations are kept.
LEMMA DeallocTyped ==
  ASSUME Typed, NEW name, Position(name) # 0, attached \in Proc, Dealloc(name)
  PROVE  /\ BlockChange(attached, allocs[Position(name)].at, "free", "unmapped")
         /\ MemoryOK' /\ StateOK'
<1> USE DEF Typed
<1>1. /\ allocs[Position(name)] \in Alloced
      /\ RemoveAt(allocs, Position(name)) \in Seq(Alloced)
  BY Positions DEF StateOK
<1>2. allocs[Position(name)].at \in Cave
  BY <1>1 DEF Alloced
<1>3. BlockChange(attached, allocs[Position(name)].at, "free", "unmapped")
  BY DEF Dealloc, BlockChange
<1>4. MemoryOK'
  BY <1>2, <1>3, BlockChangeOK
<1>5. StateOK'
  BY <1>1, Unbinds DEF Dealloc, StateOK
<1> QED
  BY <1>3, <1>4, <1>5

LEMMA CleanupTyped == Typed /\ Cleanup => Typed'
<1> SUFFICES ASSUME Typed, Cleanup PROVE Typed'
  OBVIOUS
<1> USE DEF Typed
<1>1. /\ job.pc = "apply" /\ job.deferred # <<>> /\ RunDeferred
      /\ job' = [job EXCEPT !.deferred = Tail(@)]
      /\ UNCHANGED <<attached, script, outcome>>
  BY DEF Cleanup, RunDeferred, user
<1>2. attached \in Proc
  BY <1>1, JobParts
<1>3. UserOK'
  BY <1>1 DEF UserOK
<1>4. JobOK'
  <2>1. Tail(job.deferred) \in Seq(OfScripts)
    BY <1>1, JobParts
  <2> QED
    BY <1>1, <2>1 DEF JobOK, JobType
<1> DEFINE d == Head(job.deferred)
<1>5. MemoryOK' /\ StateOK'
  <2>1. CASE d.op = "unregistersymbol"
    <3>1. /\ symbols' = [n \in DOMAIN symbols \ {d.name} |-> symbols[n]]
          /\ UNCHANGED <<mem, owner, allocs>>
      BY <1>1, <2>1 DEF RunDeferred, Unregister
    <3>2. symbols' \in Table
      BY <3>1, Unbinds DEF StateOK
    <3>3. MemoryOK'
      BY <3>1 DEF MemoryOK
    <3> QED
      BY <3>1, <3>2, <3>3 DEF StateOK
  <2>2. CASE d.op # "unregistersymbol" /\ Position(d.name) # 0
    <3>1. Dealloc(d.name)
      BY <1>1, <2>2 DEF RunDeferred
    <3> QED
      BY <1>2, <2>2, <3>1, DeallocTyped
  <2>3. CASE d.op # "unregistersymbol" /\ Position(d.name) = 0
    <3>1. UNCHANGED <<mem, owner, symbols, allocs>>
      BY <1>1, <2>3 DEF RunDeferred, asm
    <3> QED
      BY <3>1 DEF StateOK, MemoryOK
  <2> QED
    BY <2>1, <2>2, <2>3
<1> QED
  BY <1>3, <1>4, <1>5

LEMMA FinishTyped == Typed /\ FinishRun => Typed'
<1> SUFFICES ASSUME Typed, FinishRun PROVE Typed'
  OBVIOUS
<1>1. MemoryOK' /\ StateOK' /\ UserOK'
  <2>1. outcome' \in OutcomeType
    BY Outcomes DEF FinishRun
  <2> QED
    BY <2>1 DEF Typed, FinishRun, user, asm, MemoryOK, StateOK, UserOK
<1>2. JobOK'
  BY IdleTyped DEF FinishRun, JobOK
<1> QED
  BY <1>1, <1>2 DEF Typed

LEMMA GameTyped ==
  ASSUME Typed, NEW p \in Proc, NEW c \in Cave, GameAllocates(p, c) \/ GameFrees(p, c)
  PROVE  Typed'
<1> USE DEF Typed
<1>1. JobOK' /\ StateOK' /\ UserOK'
  BY DEF GameAllocates, GameFrees, user, asm, JobOK, StateOK, UserOK
<1>2. CASE GameAllocates(p, c)
  <2>1. BlockChange(p, c, "game", "data")
    BY <1>2 DEF GameAllocates, BlockChange
  <2> QED
    BY <1>1, <2>1, BlockChangeOK
<1>3. CASE GameFrees(p, c)
  <2>1. BlockChange(p, c, "free", "unmapped")
    BY <1>3 DEF GameFrees, BlockChange
  <2> QED
    BY <1>1, <2>1, BlockChangeOK
<1> QED
  BY <1>2, <1>3

LEMMA StutterTyped == Typed /\ UNCHANGED aaVars => Typed'
BY DEF aaVars, Typed, MemoryOK, JobOK, StateOK, UserOK

LEMMA NextTyped == Typed /\ [AaNext]_aaVars => Typed'
<1> SUFFICES ASSUME Typed, [AaNext]_aaVars PROVE Typed'
  OBVIOUS
<1>1. CASE Commands
  <2>1. AllocFails => Fail
    BY DEF AllocFails
  <2>2. ScanFails => Fail
    BY DEF ScanFails
  <2> QED
    BY <1>1, <2>1, <2>2, AllocTyped, ScanTyped, DeferTyped, FailTyped DEF Commands
<1>2. CASE Apply
  <2>1. WriteFails => Fail
    BY DEF WriteFails
  <2> QED
    BY <1>2, <2>1, WriteTyped, CleanupTyped, FinishTyped, FailTyped DEF Apply
<1> QED
  BY <1>1, <1>2, UserTyped, LayoutTyped, GameTyped, StutterTyped DEF AaNext

LEMMA TypedAlways == AaSpec => []Typed
<1>1. AaInit => Typed
  BY InitTyped
<1>2. Typed /\ [AaNext]_aaVars => Typed'
  BY NextTyped
<1> QED
  BY <1>1, <1>2, PTL DEF AaSpec

\* The variables of the assembler keep their types, and a block is free
\* exactly if none of its cells is mapped, whatever the scripts are.
THEOREM TypeCorrect == AaSpec => []AaTypeOK
<1>1. Typed => AaTypeOK
  BY TypedIsTypeOK
<1> QED
  BY <1>1, TypedAlways, PTL

-----------------------------------------------------------------------------
(* Scripts as the documentation writes them: Enable looks for the          *)
(* instruction, reserves a cave near it, fills it with code that ends with *)
(* a jump back, and turns the instruction into a jump there. Disable       *)
(* restores the instruction, then frees or unregisters what it likes.      *)

CommandLine == {l \in ScriptLine : \/ l.op = "alloc" /\ l.name = "newmem"
                                   \/ l.op = "aobscanmodule" /\ l.name = "inject"}
BodyLine    == {l \in ScriptLine : l.op \in Emission /\ (l.op \in Jumps => l.name = "return")}
CleanLine   == {l \in ScriptLine : l.op \in {"unregistersymbol", "dealloc"}}

HasScan(r) == \E i \in 1..Len(r) : r[i].op = "aobscanmodule"

\* b is the code of a cave; off says where in the cave each line of it begins.
IsBody(b, off) ==
  /\ b \in Seq(BodyLine) /\ Len(b) > 0 /\ b[Len(b)].op = "jmp"
  /\ off \in [1..(Len(b) + 1) -> Nat] /\ off[1] = 0 /\ off[Len(b) + 1] <= CAVE_SIZE
  /\ \A i \in 1..Len(b) : off[i + 1] = off[i] + LineSize(b[i])

CodeOf(b) == <<L("anchor", "newmem")>> \o (b \o Patch)

Documented(s) ==
  /\ \/ s.enable = <<>>
     \/ \E r \in Seq(CommandLine) : \E b, off :
          HasScan(r) /\ IsBody(b, off) /\ s.enable = r \o CodeOf(b)
  /\ s.disable = <<>> \/ \E clean \in Seq(CleanLine) : s.disable = Restore \o clean

-----------------------------------------------------------------------------
(* What a process looks like.                                              *)

Intact(p) == mem[p][Site[p]].op = "o1" /\ mem[p][Site[p] + 1].op = "o2"

\* Cell a holds what line l assembles to.
Shows(p, a, l) ==
  \/ l.op = "nop" /\ mem[p][a].op = "nop"
  \/ l.op = "db" /\ mem[p][a].op = "o1" /\ mem[p][a + 1].op = "o2"
  \/ l.op \in Jumps /\ mem[p][a].op = l.op /\ mem[p][a].to = Site[p] + 2

\* The first k lines of b are in the block at c.
Holds(p, c, b, off, k) == \A i \in 1..Len(b) : i <= k => Shows(p, c + off[i], b[i])

\* The instruction is a jump to a cave with the whole of b in it.
HookedTo(p, c, b, off) ==
  /\ mem[p][Site[p]].op = "jmp" /\ mem[p][Site[p]].to = c
  /\ mem[p][Site[p] + 1].op # "o1"
  /\ Holds(p, c, b, off, Len(b))

Hooked(p) ==
  \E c \in Cave : \E b, off :
    owner[p][c] = "assembler" /\ IsBody(b, off) /\ HookedTo(p, c, b, off)

\* Lines follow each other in the cave and end inside of it.
LEMMA Offsets ==
  ASSUME NEW b, NEW off, IsBody(b, off)
  PROVE  /\ Len(b) \in Nat /\ \A i \in 1..Len(b) : b[i] \in BodyLine /\ off[i] \in Nat
         /\ \A i, j \in 1..(Len(b) + 1) : i < j => off[i] + LineSize(b[i]) <= off[j]
         /\ \A i \in 1..Len(b) : off[i] + LineSize(b[i]) <= CAVE_SIZE
<1> DEFINE m == Len(b)
           Apart(j) == \A i \in 1..(m + 1) : i < j => off[i] + LineSize(b[i]) <= off[j]
           S == {j \in Nat : j \in 1..(m + 1) => Apart(j)}
<1>1. m \in Nat /\ m > 0 /\ \A i \in 1..m : b[i] \in BodyLine
  BY DEF IsBody
<1>2. \A i \in 1..(m + 1) : off[i] \in Nat
  BY DEF IsBody
<1>3. \A i \in 1..m : off[i + 1] = off[i] + LineSize(b[i])
  BY DEF IsBody
<1>4. off[m + 1] <= CAVE_SIZE
  BY DEF IsBody
<1>5. \A i : LineSize(b[i]) \in 1..2
  BY DEF LineSize
<1> HIDE DEF m
<1>6. 0 \in S
  OBVIOUS
<1>7. ASSUME NEW j \in S PROVE j + 1 \in S
  <2> SUFFICES ASSUME j + 1 \in 1..(m + 1), NEW i \in 1..(m + 1), i < j + 1
               PROVE  off[i] + LineSize(b[i]) <= off[j + 1]
    OBVIOUS
  <2>1. j \in 1..m /\ j \in 1..(m + 1)
    BY <1>1
  <2>2. off[j + 1] = off[j] + LineSize(b[j]) /\ LineSize(b[j]) \in 1..2 /\ off[j] \in Nat
    BY <1>2, <1>3, <1>5, <2>1
  <2>3. CASE i = j
    BY <2>2, <2>3
  <2>4. CASE i < j
    <3>1. off[i] + LineSize(b[i]) <= off[j]
      BY <2>1, <2>4
    <3>2. off[i] \in Nat /\ LineSize(b[i]) \in 1..2
      BY <1>2, <1>5
    <3> QED
      BY <2>2, <3>1, <3>2
  <2> QED
    BY <1>1, <2>3, <2>4
<1> HIDE DEF S
<1>8. S = Nat
  BY <1>6, <1>7, SetInduction DEF S
<1>9. \A j \in 1..(m + 1) : Apart(j)
  BY <1>1, <1>8 DEF S
<1>10. ASSUME NEW i \in 1..m PROVE off[i] + LineSize(b[i]) <= CAVE_SIZE
  <2>1. i \in 1..(m + 1) /\ m + 1 \in 1..(m + 1) /\ i < m + 1
    BY <1>1
  <2>2. off[i] + LineSize(b[i]) <= off[m + 1]
    BY <1>9, <2>1
  <2>3. off[i] \in Nat /\ LineSize(b[i]) \in 1..2 /\ off[m + 1] \in Nat /\ CAVE_SIZE \in Nat
    BY <1>2, <1>5, <2>1, AaAssumption
  <2> QED
    BY <1>4, <2>2, <2>3
<1>11. \A i \in 1..m : i \in 1..(m + 1)
  BY <1>1
<1> QED
  BY <1>1, <1>2, <1>9, <1>10, <1>11 DEF m

\* A line that is in the cave is in its cells.
LEMMA InCave ==
  ASSUME NEW b, NEW off, IsBody(b, off), NEW c \in Cave, NEW i \in 1..Len(b)
  PROVE  /\ \A a \in (c + off[i])..(c + off[i] + LineSize(b[i]) - 1) : a \in Cells(c)
         /\ c + off[i] \in Cells(c) /\ c + off[i] \in Addr /\ c + off[i] \in Nat \ {0}
         /\ b[i].op = "db" => c + off[i] + 1 \in Cells(c) /\ c + off[i] + 1 \in Addr
<1>1. off[i] \in Nat /\ off[i] + LineSize(b[i]) <= CAVE_SIZE
  BY Offsets
<1>2. c \in Nat \ {0} /\ Cells(c) \subseteq Addr /\ CAVE_SIZE \in Nat
  BY Places, AaAssumption
<1>3. LineSize(b[i]) \in 1..2 /\ (b[i].op = "db" => LineSize(b[i]) = 2)
  BY DEF LineSize
<1>4. \A a \in (c + off[i])..(c + off[i] + LineSize(b[i]) - 1) : a \in Cells(c)
  BY <1>1, <1>2, <1>3 DEF Cells
<1>5. c + off[i] \in Cells(c) /\ (b[i].op = "db" => c + off[i] + 1 \in Cells(c))
  BY <1>1, <1>2, <1>3 DEF Cells
<1>6. c + off[i] \in Nat \ {0}
  BY <1>1, <1>2
<1> QED
  BY <1>2, <1>4, <1>5, <1>6

-----------------------------------------------------------------------------
(* Where the game comes out.                                               *)

\* f is the sets of cells of Passes(p), by the number of steps.
Leads(p, f) ==
  LET back == Site[p] + 2
  IN f = [n \in 0..(CAVE_SIZE + 2) |->
            IF n = 0 THEN {back}
            ELSE LET known == f[n - 1]
                 IN known \cup
                    {a \in Addr : LET cell == mem[p][a] IN
                       \/ cell.op \in {"o1", "o2", "nop"} /\ a + 1 \in known
                       \/ cell.op = "jmp" /\ cell.to \in known
                       \/ cell.op = "je" /\ {a + 1, cell.to} \subseteq known}]

\* A step further back than the cells known.
Before(p, known) ==
  {a \in Addr : LET cell == mem[p][a] IN
     \/ cell.op \in {"o1", "o2", "nop"} /\ a + 1 \in known
     \/ cell.op = "jmp" /\ cell.to \in known
     \/ cell.op = "je" /\ {a + 1, cell.to} \subseteq known}

LEMMA LeadsExist == \A p : \E f : Leads(p, f)
<1> SUFFICES ASSUME NEW p PROVE \E f : Leads(p, f)
  OBVIOUS
<1> DEFINE Body(f, n) == IF n = 0 THEN {Site[p] + 2} ELSE f[n - 1] \cup Before(p, f[n - 1])
           Good(f, k) == \A n \in 0..k : f[n] = Body(f, n)
           S == {k \in Nat : \E f : Good(f, k)}
<1>1. 0 \in S
  <2>1. Good([n \in {0} |-> {Site[p] + 2}], 0)
    OBVIOUS
  <2> QED
    BY <2>1
<1>2. ASSUME NEW k \in S PROVE k + 1 \in S
  <2>1. PICK f : Good(f, k)
    OBVIOUS
  <2> DEFINE g == [n \in 0..(k + 1) |-> Body(f, n)]
  <2>2. ASSUME NEW n \in 0..k PROVE g[n] = f[n]
    <3>1. n \in 0..(k + 1)
      OBVIOUS
    <3>2. g[n] = Body(f, n)
      BY <3>1
    <3>3. f[n] = Body(f, n)
      BY <2>1
    <3> QED
      BY <3>2, <3>3
  <2>3. ASSUME NEW n \in 0..(k + 1) PROVE g[n] = Body(g, n)
    <3>1. CASE n = 0
      BY <3>1
    <3>2. CASE n # 0
      <4>1. n - 1 \in 0..k
        BY <3>2
      <4>2. g[n] = Body(f, n)
        OBVIOUS
      <4>3. g[n - 1] = f[n - 1]
        BY <2>2, <4>1
      <4> HIDE DEF g
      <4> QED
        BY <4>2, <4>3
    <3> QED
      BY <3>1, <3>2
  <2>4. Good(g, k + 1)
    BY <2>3
  <2> HIDE DEF g, Good
  <2> QED
    BY <2>4
<1> HIDE DEF S
<1>3. S = Nat
  BY <1>1, <1>2, SetInduction DEF S
<1> DEFINE N == CAVE_SIZE + 2
<1>4. N \in Nat
  BY AaAssumption
<1>5. PICK f : Good(f, N)
  BY <1>3, <1>4 DEF S
<1> HIDE DEF N
<1> DEFINE h == [n \in 0..N |-> f[n]]
<1>6. h = [n \in 0..N |-> Body(h, n)]
  <2>1. ASSUME NEW n \in 0..N PROVE f[n] = Body(h, n)
    <3>1. CASE n = 0
      BY <1>5, <3>1
    <3>2. CASE n # 0
      <4>1. n - 1 \in 0..N
        BY <1>4, <3>2
      <4>2. h[n - 1] = f[n - 1]
        BY <4>1
      <4> HIDE DEF h
      <4> QED
        BY <1>5, <4>2
    <3> QED
      BY <3>1, <3>2
  <2> QED
    BY <2>1
<1> HIDE DEF h
<1> QED
  BY <1>6 DEF Leads, Before, N

\* What Passes computes: nothing known is forgotten, and each step goes back.
LEMMA PassesIs ==
  ASSUME NEW p
  PROVE  \E f : /\ Passes(p) = f[CAVE_SIZE + 2] /\ f[0] = {Site[p] + 2}
                /\ \A n \in 1..(CAVE_SIZE + 2) : f[n] = f[n - 1] \cup Before(p, f[n - 1])
                /\ \A i, j \in 0..(CAVE_SIZE + 2) : i <= j => f[i] \subseteq f[j]
<1> DEFINE from == CHOOSE f : Leads(p, f)
           N == CAVE_SIZE + 2
<1>1. Passes(p) = from[N]
  BY DEF Passes, Leads
<1>2. Leads(p, from)
  BY LeadsExist
<1> HIDE DEF from
<1>3. N \in Nat
  BY AaAssumption
<1>4. from = [n \in 0..N |-> IF n = 0 THEN {Site[p] + 2} ELSE from[n - 1] \cup Before(p, from[n - 1])]
  BY <1>2 DEF Leads, Before
<1> HIDE DEF N
<1>5. from[0] = {Site[p] + 2}
  BY <1>3, <1>4
<1>6. ASSUME NEW n \in 1..N PROVE from[n] = from[n - 1] \cup Before(p, from[n - 1])
  <2>1. n \in 0..N /\ n # 0
    BY <1>3
  <2> QED
    BY <1>4, <2>1
<1> DEFINE S == {j \in Nat : j <= N => \A i \in 0..j : from[i] \subseteq from[j]}
<1>7. 0 \in S
  OBVIOUS
<1>8. ASSUME NEW j \in S PROVE j + 1 \in S
  <2> SUFFICES ASSUME j + 1 <= N, NEW i \in 0..(j + 1) PROVE from[i] \subseteq from[j + 1]
    OBVIOUS
  <2>1. j + 1 \in 1..N /\ j <= N /\ j + 1 - 1 = j
    BY <1>3
  <2>2. from[j] \subseteq from[j + 1]
    BY <1>6, <2>1
  <2>3. CASE i = j + 1
    BY <2>3
  <2>4. CASE i # j + 1
    <3>1. i \in 0..j
      BY <2>4
    <3>2. from[i] \subseteq from[j]
      BY <2>1, <3>1
    <3> QED
      BY <2>2, <3>2
  <2> QED
    BY <2>3, <2>4
<1> HIDE DEF S
<1>9. S = Nat
  BY <1>7, <1>8, SetInduction DEF S
<1>10. \A i, j \in 0..N : i <= j => from[i] \subseteq from[j]
  BY <1>3, <1>9 DEF S
<1> QED
  BY <1>1, <1>5, <1>6, <1>10 DEF N

\* One step back: where the game was before it is at a known cell.
LEMMA StepBack ==
  ASSUME NEW p, NEW known, NEW a \in Addr,
         \/ mem[p][a].op \in {"o1", "o2", "nop"} /\ a + 1 \in known
         \/ mem[p][a].op = "jmp" /\ mem[p][a].to \in known
         \/ mem[p][a].op = "je" /\ a + 1 \in known /\ mem[p][a].to \in known
  PROVE  a \in Before(p, known)
BY DEF Before

LEMMA IntactPasses ==
  ASSUME NEW p \in Proc, Intact(p)
  PROVE  Site[p] \in Passes(p)
<1>1. PICK f : /\ Passes(p) = f[CAVE_SIZE + 2] /\ f[0] = {Site[p] + 2}
               /\ \A n \in 1..(CAVE_SIZE + 2) : f[n] = f[n - 1] \cup Before(p, f[n - 1])
               /\ \A i, j \in 0..(CAVE_SIZE + 2) : i <= j => f[i] \subseteq f[j]
  BY PassesIs
<1>2. CAVE_SIZE \in Nat /\ Site[p] \in Nat /\ Site[p] \in Addr /\ Site[p] + 1 \in Addr
  BY Places, AaAssumption
<1>3. Site[p] + 1 \in f[1]
  <2>1. 1 \in 1..(CAVE_SIZE + 2) /\ Site[p] + 1 + 1 = Site[p] + 2 /\ 1 - 1 = 0
    BY <1>2
  <2>2. f[1] = f[0] \cup Before(p, f[0])
    BY <1>1, <2>1
  <2>3. mem[p][Site[p] + 1].op = "o2" /\ Site[p] + 1 + 1 \in f[0]
    BY <1>1, <2>1 DEF Intact
  <2>4. Site[p] + 1 \in Before(p, f[0])
    BY <1>2, <2>3, StepBack
  <2> QED
    BY <2>2, <2>4
<1>4. Site[p] \in f[2]
  <2>1. 2 \in 1..(CAVE_SIZE + 2) /\ 2 - 1 = 1
    BY <1>2
  <2>2. f[2] = f[1] \cup Before(p, f[1])
    BY <1>1, <2>1
  <2>3. Site[p] \in Before(p, f[1])
    BY <1>2, <1>3, StepBack DEF Intact
  <2> QED
    BY <2>2, <2>3
<1>5. 2 \in 0..(CAVE_SIZE + 2) /\ CAVE_SIZE + 2 \in 0..(CAVE_SIZE + 2) /\ 2 <= CAVE_SIZE + 2
  BY <1>2
<1> QED
  BY <1>1, <1>4, <1>5

\* From a line of the cave the game comes out in as many steps as there are
\* cells from there to the end of the block, by induction from the last line.
LEMMA HookedPasses ==
  ASSUME NEW p \in Proc, Hooked(p)
  PROVE  Site[p] \in Passes(p)
<1>1. PICK f : /\ Passes(p) = f[CAVE_SIZE + 2] /\ f[0] = {Site[p] + 2}
               /\ \A n \in 1..(CAVE_SIZE + 2) : f[n] = f[n - 1] \cup Before(p, f[n - 1])
               /\ \A i, j \in 0..(CAVE_SIZE + 2) : i <= j => f[i] \subseteq f[j]
  BY PassesIs
<1>2. PICK c \in Cave : \E b, off :
        owner[p][c] = "assembler" /\ IsBody(b, off) /\ HookedTo(p, c, b, off)
  BY DEF Hooked
<1>3. PICK b, off : IsBody(b, off) /\ HookedTo(p, c, b, off)
  BY <1>2
<1> DEFINE m == Len(b)
           N == CAVE_SIZE
           at(i) == c + off[i]
<1>4. N \in Nat /\ Site[p] \in Nat /\ Site[p] \in Addr /\ c \in Nat
  BY Places, AaAssumption
<1>5. m \in Nat /\ m > 0 /\ b[m].op = "jmp" /\ off[1] = 0
  BY <1>3, Offsets DEF IsBody
<1>6. \A i \in 1..m : off[i] \in Nat /\ off[i] + LineSize(b[i]) <= N /\ b[i] \in BodyLine
  BY <1>3, Offsets
<1>7. \A i \in 1..m : off[i + 1] = off[i] + LineSize(b[i])
  BY <1>3 DEF IsBody
<1>8. \A i \in 1..m : /\ at(i) \in Addr /\ at(i) \in Nat
                      /\ b[i].op = "db" => at(i) + 1 \in Addr
  <2>1. ASSUME NEW i \in 1..Len(b)
        PROVE  /\ c + off[i] \in Addr /\ c + off[i] \in Nat
               /\ b[i].op = "db" => c + off[i] + 1 \in Addr
    BY <1>3, InCave
  <2> QED
    BY <2>1
<1>9. \A i \in 1..m : Shows(p, at(i), b[i])
  BY <1>3, <1>5 DEF HookedTo, Holds
<1>10. \A i \in 1..m : b[i].op = "db" => LineSize(b[i]) = 2
  BY DEF LineSize
<1>11. \A i \in 1..m : b[i].op # "db" => LineSize(b[i]) = 1
  BY DEF LineSize
<1> DEFINE D(i) == N - off[i]
<1>12. \A i \in 1..m : D(i) \in 1..N
  <2>1. ASSUME NEW i \in 1..m PROVE D(i) \in 1..N
    <3>1. LineSize(b[i]) \in 1..2 /\ off[i] \in Nat /\ off[i] + LineSize(b[i]) <= N
      BY <1>6, <1>10, <1>11
    <3> HIDE DEF N
    <3> QED
      BY <1>4, <3>1
  <2> QED
    BY <2>1
<1>13. \A n \in 0..(N + 2) : Site[p] + 2 \in f[n]
  <2>1. \A n \in 0..(N + 2) : 0 \in 0..(N + 2) /\ 0 <= n
    BY <1>4
  <2> QED
    BY <1>1, <2>1
<1>14. \A n \in 1..(N + 2) : Before(p, f[n - 1]) \subseteq f[n]
  BY <1>1
<1> HIDE DEF m, N
<1>15. ASSUME NEW i \in 1..m, i = m \/ at(i + 1) \in f[D(i + 1)]
       PROVE  at(i) \in f[D(i)]
  <2> DEFINE n == D(i)
             a == at(i)
  <2>1. n \in 1..(N + 2) /\ n - 1 \in 0..(N + 2) /\ a \in Addr /\ a \in Nat
    BY <1>4, <1>8, <1>12
  <2>2. Before(p, f[n - 1]) \subseteq f[n]
    BY <1>14, <2>1
  <2>3. b[i].op \in {"db", "nop", "jmp", "je"}
    BY <1>6 DEF BodyLine, Emission, Jumps
  <2>4. CASE b[i].op = "jmp"
    <3>1. mem[p][a].op = "jmp" /\ mem[p][a].to = Site[p] + 2
      BY <1>9, <2>4 DEF Shows, Jumps
    <3>2. mem[p][a].to \in f[n - 1]
      BY <1>13, <2>1, <3>1
    <3>3. a \in Before(p, f[n - 1])
      <4> HIDE DEF n, a
      <4> QED
        BY <2>1, <3>1, <3>2, StepBack
    <3> QED
      BY <2>2, <3>3
  <2>5. CASE b[i].op # "jmp"
    <3>1. i # m /\ off[i + 1] = off[i] + LineSize(b[i])
      BY <1>5, <1>7, <2>5
    <3>2. at(i + 1) \in f[D(i + 1)] /\ off[i] \in Nat
      BY <1>6, <1>15, <3>1
    <3>3. CASE b[i].op \in {"nop", "je"}
      <4>1. at(i + 1) = a + 1 /\ D(i + 1) = n - 1
        BY <1>4, <1>11, <3>1, <3>2, <3>3
      <4>2. a + 1 \in f[n - 1]
        BY <3>2, <4>1
      <4>3. CASE b[i].op = "nop"
        <5>1. mem[p][a].op = "nop"
          BY <1>9, <4>3 DEF Shows, Jumps
        <5>3. a \in Before(p, f[n - 1])
          <6> HIDE DEF n, a
          <6> QED
            BY <2>1, <4>2, <5>1, StepBack
        <5> QED
          BY <2>2, <5>3
      <4>4. CASE b[i].op = "je"
        <5>1. mem[p][a].op = "je" /\ mem[p][a].to = Site[p] + 2
          BY <1>9, <4>4 DEF Shows, Jumps
        <5>2. mem[p][a].to \in f[n - 1]
          BY <1>13, <2>1, <5>1
        <5>3. a \in Before(p, f[n - 1])
          <6> HIDE DEF n, a
          <6> QED
            BY <2>1, <4>2, <5>1, <5>2, StepBack
        <5> QED
          BY <2>2, <5>3
      <4> QED
        BY <3>3, <4>3, <4>4
    <3>4. CASE b[i].op = "db"
      <4>1. at(i + 1) = a + 1 + 1 /\ D(i + 1) = n - 1 - 1
        BY <1>4, <1>10, <3>1, <3>2, <3>4
      <4>2. mem[p][a].op = "o1" /\ mem[p][a + 1].op = "o2"
        BY <1>9, <3>4 DEF Shows, Jumps
      <4>3. i + 1 \in 1..m \/ i + 1 = m + 1
        BY <1>5
      <4>4. n - 1 \in 1..(N + 2)
        <5>1. off[i] + 2 <= N
          BY <1>6, <1>10, <3>4
        <5> QED
          BY <1>4, <3>2, <5>1
      <4>5. Before(p, f[n - 1 - 1]) \subseteq f[n - 1]
        BY <1>14, <4>4
      <4>6. a + 1 \in Addr
        BY <1>8, <3>4
      <4>7. a + 1 + 1 \in f[n - 1 - 1]
        BY <3>2, <4>1
      <4>8. a + 1 \in Before(p, f[n - 1 - 1])
        <5> HIDE DEF n, a
        <5> QED
          BY <4>2, <4>6, <4>7, StepBack
      <4>9. a + 1 \in f[n - 1]
        BY <4>5, <4>8
      <4>10. a \in Before(p, f[n - 1])
        <5> HIDE DEF n, a
        <5> QED
          BY <2>1, <4>2, <4>9, StepBack
      <4> QED
        BY <2>2, <4>10
    <3> QED
      BY <2>3, <2>5, <3>3, <3>4
  <2> QED
    BY <2>4, <2>5
<1> DEFINE S == {k \in Nat : k < m => at(m - k) \in f[D(m - k)]}
<1> HIDE DEF at, D
<1>16. 0 \in S
  BY <1>5, <1>15
<1>17. ASSUME NEW k \in S PROVE k + 1 \in S
  <2> SUFFICES ASSUME k + 1 < m PROVE at(m - (k + 1)) \in f[D(m - (k + 1))]
    OBVIOUS
  <2>1. m - (k + 1) \in 1..m /\ m - (k + 1) + 1 = m - k /\ k < m
    BY <1>5
  <2>2. at(m - k) \in f[D(m - k)]
    BY <2>1
  <2> QED
    BY <1>15, <2>1, <2>2
<1> HIDE DEF S
<1>18. S = Nat
  BY <1>16, <1>17, SetInduction DEF S
<1>19. at(1) \in f[D(1)]
  <2>1. m - 1 \in S
    BY <1>5, <1>18
  <2>2. m - 1 < m /\ m - (m - 1) = 1
    BY <1>5
  <2> QED
    BY <2>1, <2>2 DEF S
<1>20. at(1) = c /\ D(1) = N
  BY <1>4, <1>5 DEF at, D
<1>21. Site[p] \in f[N + 1]
  <2>1. N + 1 \in 1..(N + 2) /\ N + 1 - 1 = N
    BY <1>4
  <2>2. mem[p][Site[p]].op = "jmp" /\ mem[p][Site[p]].to = c
    BY <1>3 DEF HookedTo
  <2>3. Before(p, f[N]) \subseteq f[N + 1]
    <3> DEFINE n == N + 1
    <3>1. n \in 1..(N + 2) /\ n - 1 = N
      BY <1>4, <2>1
    <3> HIDE DEF n
    <3>2. Before(p, f[N]) \subseteq f[n]
      BY <1>14, <3>1
    <3> QED
      BY <3>2 DEF n
  <2>4. mem[p][Site[p]].to \in f[N]
    BY <1>19, <1>20, <2>2
  <2>5. Site[p] \in Before(p, f[N])
    BY <1>4, <2>2, <2>4, StepBack
  <2> QED
    BY <2>1, <2>3, <2>5
<1>22. N + 1 \in 0..(N + 2) /\ N + 2 \in 0..(N + 2) /\ N + 1 <= N + 2
  BY <1>4
<1> QED
  BY <1>1, <1>21, <1>22 DEF N

-----------------------------------------------------------------------------
(* The invariant.                                                          *)

\* In the module only the instruction may have changed.
ModuleOK(p) == \A a \in Module : a \notin {Site[p], Site[p] + 1} => mem[p][a].op = "data"

\* Symbols mean what the scripts take them for, and caves are there.
SymbolsOK(p) ==
  /\ "inject" \in DOMAIN symbols => symbols["inject"] = Site[p]
  /\ "return" \in DOMAIN symbols => symbols["return"] = Site[p] + 2
  /\ "newmem" \in DOMAIN symbols =>
       symbols["newmem"] \in Cave /\ owner[p][symbols["newmem"]] = "assembler"

\* Allocations are blocks the assembler holds, each listed once.
AllocsOK(p) ==
  /\ \A i \in 1..Len(allocs) :
       allocs[i].name = "newmem" /\ owner[p][allocs[i].at] = "assembler"
  /\ \A i, j \in 1..Len(allocs) : i # j => allocs[i].at # allocs[j].at

\* The scan has found the instruction.
Ready == Intact(attached) /\ "inject" \in DOMAIN symbols

\* Enable: the commands that are left, the code that is collected, and what
\* is still to be written. The instruction is the last to change.
Scanning(b) ==
  /\ job.pc = "commands" /\ job.items = <<>>
  /\ \E r \in Seq(CommandLine) : job.lines = r \o CodeOf(b) /\ (HasScan(r) \/ Ready)

Collecting(b) == job.pc = "commands" /\ job.items \o job.lines = CodeOf(b) /\ Ready

Plan(p, c, b, off) ==
  [i \in 1..(Len(b) + 2) |->
     IF i <= Len(b) THEN [at |-> c + off[i], line |-> b[i]]
     ELSE IF i = Len(b) + 1 THEN [at |-> Site[p], line |-> L("jmp", "newmem")]
     ELSE [at |-> Site[p] + 1, line |-> L("nop", "")]]

\* k of the lines are written.
Patching(b, off, k) ==
  LET c == symbols["newmem"]
  IN /\ job.pc = "apply" /\ {"newmem", "return"} \subseteq DOMAIN symbols
     /\ job.placed = SubSeq(Plan(attached, c, b, off), k + 1, Len(b) + 2)
     /\ Holds(attached, c, b, off, k)
     /\ k <= Len(b) => Intact(attached)
     /\ k > Len(b) => HookedTo(attached, c, b, off)

Enabling ==
  /\ job.deferred = <<>>
  /\ \E b, off : /\ IsBody(b, off)
                 /\ \/ Scanning(b) \/ Collecting(b)
                    \/ \E k \in 0..(Len(b) + 2) : Patching(b, off, k)

\* Disable: the two lines that restore the instruction, then the cleanup.
Restoring ==
  /\ job.pc = "commands"
  /\ \/ job.items = <<>> /\ \E clean \in Seq(CleanLine) : job.lines = Restore \o clean
     \/ /\ job.items = <<L("anchor", "inject")>>
        /\ \E clean \in Seq(CleanLine) : job.lines = <<L("db", "")>> \o clean
     \/ job.items = Restore /\ job.lines \in Seq(CleanLine)

Undoing ==
  /\ job.pc = "apply"
  /\ \/ job.placed = <<[at |-> Site[attached], line |-> L("db", "")]>>
     \/ job.placed = <<>> /\ Intact(attached)

Disabling == job.deferred \in Seq(CleanLine) /\ (Restoring \/ Undoing)

JobInv ==
  job.pc # "idle" =>
    /\ outcome = NoOutcome
    /\ \/ job.section = "enable" /\ Enabling
       \/ job.section = "disable" /\ Disabling

OutcomeInv ==
  outcome.status \in {"enabled", "disabled"} /\ outcome.log # "(secao vazia)" =>
    /\ attached \in Proc
    /\ outcome.status = "enabled" => Hooked(attached)
    /\ outcome.status = "disabled" => Intact(attached)

ProcInv ==
  /\ \A p \in Proc : ModuleOK(p) /\ (Intact(p) \/ Hooked(p))
  /\ \A p \in Proc \ Blocked : SymbolsOK(p) /\ AllocsOK(p)

PatchInv == Typed /\ ProcInv /\ JobInv /\ OutcomeInv

\* There is one process to run scripts on, and they are as documented.
OneTarget  == \A p, q \in Proc \ Blocked : p = q
AllDocumented == \A s \in Script : Documented(s)

-----------------------------------------------------------------------------
(* What a step leaves of a process whose code and caves it does not touch. *)

Spared(p) ==
  /\ \A a \in Module : mem'[p][a] = mem[p][a]
  /\ \A c \in Cave : owner[p][c] = "assembler" =>
       owner'[p][c] = "assembler" /\ \A a \in Cells(c) : mem'[p][a] = mem[p][a]

\* A block that is not the assembler's may change.
LEMMA BlockSpares ==
  ASSUME MemoryOK, NEW p \in Proc, NEW c \in Cave, NEW o, NEW op, BlockChange(p, c, o, op),
         NEW q \in Proc, q # p \/ owner[p][c] # "assembler"
  PROVE  Spared(q)
<1>1. ASSUME NEW a \in Module PROVE mem'[q][a] = mem[q][a]
  <2>1. a \in Addr /\ a \notin Cells(c)
    BY Places
  <2> QED
    BY <2>1, BlockChanges
<1>2. ASSUME NEW d \in Cave, owner[q][d] = "assembler"
      PROVE  owner'[q][d] = "assembler" /\ \A a \in Cells(d) : mem'[q][a] = mem[q][a]
  <2>1. ~(q = p /\ d = c)
    BY <1>2
  <2>2. owner'[q][d] = "assembler"
    BY <1>2, <2>1, BlockChanges
  <2>3. ASSUME NEW a \in Cells(d) PROVE mem'[q][a] = mem[q][a]
    <3>1. a \in Addr /\ ~(q = p /\ a \in Cells(c))
      BY <2>1, Places
    <3> QED
      BY <3>1, BlockChanges
  <2> QED
    BY <2>2, <2>3
<1> QED
  BY <1>1, <1>2 DEF Spared

\* Nothing of another process is written to.
LEMMA WriteSpares ==
  ASSUME MemoryOK, attached \in Proc, Write, NEW q \in Proc, q # attached
  PROVE  Spared(q)
<1>1. \A a \in Addr : mem'[q][a] = mem[q][a]
  BY WriteIs
<1>2. owner' = owner
  BY DEF Write
<1>3. \A a \in Module : a \in Addr
  BY Places
<1>4. \A c \in Cave : \A a \in Cells(c) : a \in Addr
  BY Places
<1> QED
  BY <1>1, <1>2, <1>3, <1>4 DEF Spared

LEMMA SameSpares ==
  ASSUME mem' = mem, owner' = owner, NEW q
  PROVE  Spared(q)
BY DEF Spared

\* What is spared stays as it is.
LEMMA ShowsKept ==
  ASSUME NEW p \in Proc, NEW c \in Cave, NEW b, NEW off, IsBody(b, off),
         \A a \in Cells(c) : mem'[p][a] = mem[p][a], NEW k
  PROVE  Holds(p, c, b, off, k) => Holds(p, c, b, off, k)'
<1>1. ASSUME NEW i \in 1..Len(b), Shows(p, c + off[i], b[i])
      PROVE  Shows(p, c + off[i], b[i])'
  <2>1. mem'[p][c + off[i]] = mem[p][c + off[i]]
    BY InCave
  <2>2. b[i].op = "db" => mem'[p][c + off[i] + 1] = mem[p][c + off[i] + 1]
    BY InCave
  <2> QED
    BY <1>1, <2>1, <2>2 DEF Shows
<1> QED
  BY <1>1 DEF Holds

\* There are no more lines than all of them.
LEMMA HoldsAll ==
  ASSUME NEW p, NEW c, NEW b, NEW off, Len(b) \in Nat, NEW k \in Nat, k >= Len(b)
  PROVE  Holds(p, c, b, off, Len(b))' => Holds(p, c, b, off, k)'
<1>1. \A i \in 1..Len(b) : i <= Len(b)
  OBVIOUS
<1> QED
  BY <1>1 DEF Holds

LEMMA SparedKept ==
  ASSUME NEW p \in Proc, Spared(p)
  PROVE  /\ ModuleOK(p) => ModuleOK(p)'
         /\ Intact(p) <=> Intact(p)'
         /\ \A c \in Cave : \A b, off :
              owner[p][c] = "assembler" /\ IsBody(b, off) /\ HookedTo(p, c, b, off)
              => HookedTo(p, c, b, off)'
         /\ Hooked(p) => Hooked(p)'
<1>1. ModuleOK(p) => ModuleOK(p)'
  BY DEF Spared, ModuleOK
<1>2. mem'[p][Site[p]] = mem[p][Site[p]] /\ mem'[p][Site[p] + 1] = mem[p][Site[p] + 1]
  BY Places DEF Spared
<1>3. Intact(p) <=> Intact(p)'
  BY <1>2 DEF Intact
<1>4. ASSUME NEW c \in Cave, NEW b, NEW off, owner[p][c] = "assembler", IsBody(b, off),
             HookedTo(p, c, b, off)
      PROVE  HookedTo(p, c, b, off)'
  <2>1. \A a \in Cells(c) : mem'[p][a] = mem[p][a]
    BY <1>4 DEF Spared
  <2>2. Holds(p, c, b, off, Len(b))'
    BY <1>4, <2>1, ShowsKept DEF HookedTo
  <2> QED
    BY <1>2, <1>4, <2>2 DEF HookedTo
<1>5. ASSUME Hooked(p) PROVE Hooked(p)'
  <2>1. PICK c \in Cave : \E b, off :
          owner[p][c] = "assembler" /\ IsBody(b, off) /\ HookedTo(p, c, b, off)
    BY <1>5 DEF Hooked
  <2>2. PICK b, off : owner[p][c] = "assembler" /\ IsBody(b, off) /\ HookedTo(p, c, b, off)
    BY <2>1
  <2>3. owner'[p][c] = "assembler" /\ HookedTo(p, c, b, off)'
    BY <1>4, <2>2 DEF Spared
  <2>4. IsBody(b, off)'
    BY <2>2 DEF IsBody
  <2> QED
    BY <2>3, <2>4 DEF Hooked
<1> QED
  BY <1>1, <1>3, <1>4, <1>5

\* Symbols and allocations that do not change still name the same blocks.
LEMMA SparedStateKept ==
  ASSUME NEW p \in Proc, Spared(p), UNCHANGED <<symbols, allocs>>,
         allocs \in Seq(Alloced)
  PROVE  (SymbolsOK(p) => SymbolsOK(p)') /\ (AllocsOK(p) => AllocsOK(p)')
<1>1. ASSUME SymbolsOK(p) PROVE SymbolsOK(p)'
  BY <1>1 DEF SymbolsOK, Spared
<1>2. ASSUME AllocsOK(p) PROVE AllocsOK(p)'
  <2>1. \A i \in 1..Len(allocs) : allocs[i].at \in Cave
    <3>1. \A i \in 1..Len(allocs) : allocs[i] \in Alloced
      OBVIOUS
    <3> QED
      BY <3>1 DEF Alloced
  <2>2. \A i \in 1..Len(allocs) : owner'[p][allocs[i].at] = "assembler"
    BY <1>2, <2>1 DEF AllocsOK, Spared
  <2> QED
    BY <1>2, <2>2 DEF AllocsOK
<1> QED
  BY <1>1, <1>2

LEMMA SparedProcs ==
  ASSUME ProcInv, \A p \in Proc : Spared(p), UNCHANGED <<symbols, allocs>>,
         allocs \in Seq(Alloced)
  PROVE  ProcInv'
<1>1. \A p \in Proc : ModuleOK(p)' /\ (Intact(p)' \/ Hooked(p)')
  BY SparedKept DEF ProcInv
<1>2. \A p \in Proc \ Blocked : SymbolsOK(p)' /\ AllocsOK(p)'
  BY SparedStateKept DEF ProcInv
<1> QED
  BY <1>1, <1>2 DEF ProcInv

LEMMA OutcomeKept ==
  ASSUME OutcomeInv, \A p \in Proc : Spared(p), UNCHANGED <<attached, outcome>>
  PROVE  OutcomeInv'
<1>1. ASSUME attached \in Proc
      PROVE  (Hooked(attached) => Hooked(attached)') /\ (Intact(attached) => Intact(attached)')
  BY <1>1, SparedKept
<1> QED
  BY <1>1 DEF OutcomeInv, Hooked, HookedTo, Holds, Shows, Intact, IsBody

\* A running job goes on when the process it works on is spared.
LEMMA JobKept ==
  ASSUME PatchInv, Spared(attached), UNCHANGED <<attached, symbols, job, outcome>>
  PROVE  JobInv'
<1> SUFFICES ASSUME job.pc # "idle" PROVE JobInv'
  BY DEF JobInv
<1>1. attached \in Proc \ Blocked /\ attached \in Proc
  BY JobParts DEF PatchInv, Typed
<1>2. SymbolsOK(attached) /\ JobInv
  BY <1>1 DEF PatchInv, ProcInv
<1>3. Intact(attached) => Intact(attached)'
  <2>1. \A q \in Proc : q = attached /\ Spared(q) /\ Intact(q) => Intact(q)'
    BY SparedKept
  <2> QED
    BY <1>1, <2>1 DEF Intact
<1>4. Ready => Ready'
  BY <1>3 DEF Ready
<1>5. ASSUME NEW b, NEW off, IsBody(b, off), NEW k \in 0..(Len(b) + 2), Patching(b, off, k)
      PROVE  Patching(b, off, k)'
  <2> DEFINE c == symbols["newmem"]
             q == attached
  <2>1. c \in Cave /\ owner[q][c] = "assembler"
    BY <1>2, <1>5 DEF Patching, SymbolsOK
  <2>2. \A a \in Cells(c) : mem'[q][a] = mem[q][a]
    BY <2>1 DEF Spared
  <2>3. ASSUME NEW p \in Proc, p = attached, NEW d \in Cave, d = c
        PROVE  /\ Holds(p, d, b, off, k) => Holds(p, d, b, off, k)'
               /\ HookedTo(p, d, b, off) => HookedTo(p, d, b, off)'
    <3>1. \A a \in Cells(d) : mem'[p][a] = mem[p][a]
      BY <2>2, <2>3
    <3>2. Spared(p) /\ owner[p][d] = "assembler"
      BY <2>1, <2>3 DEF Spared
    <3> HIDE DEF c, q
    <3>3. Holds(p, d, b, off, k) => Holds(p, d, b, off, k)'
      BY <1>5, <3>1, ShowsKept
    <3> QED
      BY <1>5, <3>2, <3>3, SparedKept
  <2>4. Holds(q, c, b, off, k)'
    <3>1. Holds(q, c, b, off, k)
      BY <1>5 DEF Patching
    <3> QED
      BY <1>1, <2>1, <2>3, <3>1 DEF Holds, Shows
  <2>5. k > Len(b) => HookedTo(q, c, b, off)'
    <3>1. k > Len(b) => HookedTo(q, c, b, off)
      BY <1>5 DEF Patching
    <3> QED
      BY <1>1, <2>1, <2>3, <3>1, SMTT(30) DEF HookedTo, Holds, Shows
  <2>6. k <= Len(b) => Intact(q)'
    BY <1>3, <1>5 DEF Patching
  <2> QED
    BY <1>5, <2>4, <2>5, <2>6 DEF Patching, Plan
<1>6. Enabling => Enabling'
  <2> SUFFICES ASSUME Enabling PROVE Enabling'
    OBVIOUS
  <2>1. PICK b, off : /\ IsBody(b, off)
                      /\ \/ Scanning(b) \/ Collecting(b)
                         \/ \E k \in 0..(Len(b) + 2) : Patching(b, off, k)
    BY DEF Enabling
  <2>2. IsBody(b, off)'
    BY <2>1 DEF IsBody
  <2>3. (Scanning(b) => Scanning(b)') /\ (Collecting(b) => Collecting(b)')
    BY <1>4 DEF Scanning, Collecting
  <2>4. job.deferred = <<>>
    BY DEF Enabling
  <2> QED
    BY <1>5, <2>1, <2>2, <2>3, <2>4 DEF Enabling
<1>7. Disabling => Disabling'
  BY <1>3 DEF Disabling, Restoring, Undoing
<1> QED
  BY <1>2, <1>6, <1>7 DEF JobInv

\* A step that spares every process and leaves the assembler alone.
LEMMA QuietStep ==
  ASSUME PatchInv, Typed', \A p \in Proc : Spared(p),
         UNCHANGED <<attached, symbols, allocs, job, outcome>>
  PROVE  PatchInv'
<1>1. allocs \in Seq(Alloced) /\ ProcInv /\ JobInv /\ OutcomeInv
  BY DEF PatchInv, Typed, StateOK
<1>2. ProcInv'
  BY <1>1, SparedProcs
<1>3. OutcomeInv'
  BY <1>1, OutcomeKept
<1>4. JobInv'
  <2>1. CASE job.pc = "idle"
    BY <2>1 DEF JobInv
  <2>2. CASE job.pc # "idle"
    <3>1. attached \in Proc
      BY <2>2, JobParts DEF PatchInv, Typed
    <3> QED
      BY <3>1, JobKept
  <2> QED
    BY <2>1, <2>2
<1> QED
  BY <1>2, <1>3, <1>4 DEF PatchInv

\* A step that only ends the run, or only is one of the user's.
LEMMA IdleStep ==
  ASSUME PatchInv, Typed', UNCHANGED <<mem, owner, symbols, allocs>>,
         job'.pc = "idle",
         outcome' \in {NoOutcome, RunFailed} \/ outcome'.log = "(secao vazia)"
  PROVE  PatchInv'
<1>1. ProcInv'
  BY SameSpares, SparedProcs DEF PatchInv, Typed, StateOK
<1>2. JobInv' /\ OutcomeInv'
  BY Outcomes DEF JobInv, OutcomeInv
<1> QED
  BY <1>1, <1>2 DEF PatchInv

LEMMA PatchInit == AaInit => PatchInv
<1> SUFFICES ASSUME AaInit PROVE PatchInv
  OBVIOUS
<1>1. Typed
  BY InitTyped
<1>2. ASSUME NEW p \in Proc PROVE ModuleOK(p) /\ Intact(p)
  <2>1. /\ Site[p] \in Addr /\ Site[p] + 1 \in Addr /\ Site[p] + 1 # Site[p]
        /\ \A a \in Module : a \in Addr
    BY Places
  <2>2. \A a \in Addr : mem[p][a] =
          Cell(IF a = Site[p] THEN "o1" ELSE IF a = Site[p] + 1 THEN "o2"
               ELSE IF a \in Module THEN "data" ELSE "unmapped")
    BY DEF AaInit
  <2>3. mem[p][Site[p]] = Cell("o1") /\ mem[p][Site[p] + 1] = Cell("o2")
    BY <2>1, <2>2
  <2>4. \A a \in Module : a \notin {Site[p], Site[p] + 1} => mem[p][a] = Cell("data")
    BY <2>1, <2>2
  <2> QED
    BY <2>3, <2>4 DEF ModuleOK, Intact, Cell
<1>3. \A p \in Proc : SymbolsOK(p) /\ AllocsOK(p)
  BY DEF AaInit, SymbolsOK, AllocsOK
<1>4. JobInv /\ OutcomeInv
  BY Outcomes DEF AaInit, Idle, JobInv, OutcomeInv
<1> QED
  BY <1>1, <1>2, <1>3, <1>4 DEF PatchInv, ProcInv

LEMMA AttachPatch ==
  ASSUME PatchInv, NEW p \in Proc, Attach(p)
  PROVE  PatchInv'
<1>1. Typed'
  BY UserTyped DEF PatchInv
<1> QED
  BY <1>1, IdleStep DEF Attach, asm

LEMMA FailPatch == PatchInv /\ Fail => PatchInv'
<1> SUFFICES ASSUME PatchInv, Fail PROVE PatchInv'
  OBVIOUS
<1>1. Typed'
  BY FailTyped DEF PatchInv
<1> QED
  BY <1>1, IdleStep, IdleTyped DEF Fail, asm

LEMMA ChangeScriptPatch ==
  ASSUME PatchInv, NEW s \in Script, ChangeScript(s)
  PROVE  PatchInv'
<1>1. Typed'
  BY UserTyped DEF PatchInv
<1>2. \A p \in Proc : Spared(p)
  BY SameSpares DEF ChangeScript
<1> QED
  BY <1>1, <1>2, QuietStep DEF ChangeScript, asm

LEMMA GamePatch ==
  ASSUME PatchInv, NEW p \in Proc, NEW c \in Cave, GameAllocates(p, c) \/ GameFrees(p, c)
  PROVE  PatchInv'
<1>1. Typed' /\ MemoryOK
  BY GameTyped DEF PatchInv, Typed
<1>2. owner[p][c] # "assembler" /\ UNCHANGED <<attached, symbols, allocs, job, outcome>>
  BY DEF GameAllocates, GameFrees, user, asm
<1>3. BlockChange(p, c, "game", "data") \/ BlockChange(p, c, "free", "unmapped")
  BY DEF GameAllocates, GameFrees, BlockChange
<1>4. \A q \in Proc : Spared(q)
  BY <1>1, <1>2, <1>3, BlockSpares
<1> QED
  BY <1>1, <1>2, <1>4, QuietStep

LEMMA RunPatch ==
  ASSUME PatchInv, AllDocumented, NEW section \in {"enable", "disable"}, RunSection(section)
  PROVE  PatchInv'
<1>1. Typed'
  BY UserTyped DEF PatchInv
<1>2. /\ UNCHANGED <<mem, owner, attached, script, symbols, allocs>> /\ job.pc = "idle"
      /\ script[section] # <<>> => outcome' = NoOutcome
  BY DEF RunSection, user, asm
<1>3. CASE script[section] = <<>>
  BY <1>1, <1>2, <1>3, IdleStep, Outcomes DEF RunSection
<1>4. CASE script[section] # <<>>
  <2>1. /\ job'.pc = "commands" /\ job'.section = section /\ job'.lines = script[section]
        /\ job'.items = <<>> /\ job'.placed = <<>> /\ job'.deferred = <<>>
    BY <1>4 DEF RunSection, Idle
  <2>2. Documented(script)
    BY DEF PatchInv, Typed, UserOK, AllDocumented
  <2>3. ASSUME section = "enable" PROVE JobInv'
    <3>1. PICK r \in Seq(CommandLine) : \E b, off :
            HasScan(r) /\ IsBody(b, off) /\ script.enable = r \o CodeOf(b)
      BY <1>4, <2>2, <2>3 DEF Documented
    <3>2. PICK b, off : HasScan(r) /\ IsBody(b, off) /\ script.enable = r \o CodeOf(b)
      BY <3>1
    <3>3. IsBody(b, off)' /\ Scanning(b)'
      BY <2>1, <2>3, <3>2 DEF Scanning, IsBody
    <3> QED
      BY <1>2, <1>4, <2>1, <2>3, <3>3 DEF JobInv, Enabling
  <2>4. ASSUME section = "disable" PROVE JobInv'
    <3>1. PICK clean \in Seq(CleanLine) : script.disable = Restore \o clean
      BY <1>4, <2>2, <2>4 DEF Documented
    <3>2. Restoring'
      BY <2>1, <2>4, <3>1 DEF Restoring
    <3> QED
      BY <1>2, <1>4, <2>1, <2>4, <3>2 DEF JobInv, Disabling
  <2>5. JobInv'
    BY <2>3, <2>4
  <2>6. ProcInv'
    BY <1>2, SameSpares, SparedProcs DEF PatchInv, Typed, StateOK
  <2>7. OutcomeInv'
    BY <1>2, <1>4, Outcomes DEF OutcomeInv
  <2> QED
    BY <1>1, <2>5, <2>6, <2>7 DEF PatchInv
<1> QED
  BY <1>3, <1>4

-----------------------------------------------------------------------------
(* The commands. What the next line can be.                                *)

AtCommand ==
  /\ job.section = "enable" /\ job.deferred = <<>> /\ job.items = <<>>
  /\ Line \in CommandLine
  /\ \E b, off : /\ IsBody(b, off)
                 /\ \E r \in Seq(CommandLine) :
                      /\ Tail(job.lines) = r \o CodeOf(b)
                      /\ Line.op = "aobscanmodule" \/ HasScan(r) \/ Ready

AtCode ==
  /\ job.section = "enable" /\ job.deferred = <<>> /\ Ready
  /\ Line.op \in {"anchor"} \cup Emission
  /\ \E b, off : /\ IsBody(b, off)
                 /\ Append(job.items, Line) \o Tail(job.lines) = CodeOf(b)

AtRestore ==
  /\ job.section = "disable" /\ job.deferred \in Seq(CleanLine)
  /\ \/ /\ job.items = <<>> /\ Line = L("anchor", "inject")
        /\ \E clean \in Seq(CleanLine) : Tail(job.lines) = <<L("db", "")>> \o clean
     \/ /\ job.items = <<L("anchor", "inject")>> /\ Line = L("db", "")
        /\ Tail(job.lines) \in Seq(CleanLine)

AtCleanup ==
  /\ job.section = "disable" /\ job.deferred \in Seq(CleanLine)
  /\ job.items = Restore /\ Line \in CleanLine /\ Tail(job.lines) \in Seq(CleanLine)

\* Sequences of one to four elements, and sequences taken apart.
LEMMA Short ==
  ASSUME NEW S, NEW x \in S, NEW y \in S, NEW z \in S, NEW w \in S
  PROVE  /\ <<x>> \in Seq(S) /\ Len(<<x>>) = 1 /\ <<x>>[1] = x
         /\ <<x, y>> \in Seq(S) /\ Len(<<x, y>>) = 2 /\ <<x, y>>[1] = x /\ <<x, y>>[2] = y
         /\ <<x, y, z, w>> \in Seq(S) /\ Len(<<x, y, z, w>>) = 4
         /\ <<x, y, z, w>>[1] = x /\ <<x, y, z, w>>[2] = y
         /\ <<x, y, z, w>>[3] = z /\ <<x, y, z, w>>[4] = w
OBVIOUS

\* Sequences are what is at each of their places.
LEMMA SeqEq ==
  ASSUME NEW S, NEW s \in Seq(S), NEW t \in Seq(S), Len(s) = Len(t),
         \A i \in 1..Len(s) : s[i] = t[i]
  PROVE  s = t
<1>1. s = [i \in 1..Len(s) |-> s[i]]
  OBVIOUS
<1>2. t = [i \in 1..Len(t) |-> t[i]]
  OBVIOUS
<1> QED
  BY <1>1, <1>2

LEMMA HeadTail ==
  ASSUME NEW S, NEW s \in Seq(S), NEW t \in Seq(S)
  PROVE  /\ s # <<>> => /\ s \o t # <<>> /\ Head(s \o t) = Head(s)
                        /\ Tail(s \o t) = Tail(s) \o t
         /\ s = <<>> => s \o t = t
         /\ t # <<>> => Append(s, Head(t)) \o Tail(t) = s \o t
<1>1. s = <<>> => s \o t = t
  OBVIOUS
<1>2. ASSUME s # <<>>
      PROVE  s \o t # <<>> /\ Head(s \o t) = Head(s) /\ Tail(s \o t) = Tail(s) \o t
  <2>1. Len(s) \in Nat /\ Len(s) > 0 /\ Len(t) \in Nat
    BY <1>2
  <2>2. /\ s \o t \in Seq(S) /\ Len(s \o t) = Len(s) + Len(t)
        /\ \A i \in 1..(Len(s) + Len(t)) : (s \o t)[i] = IF i <= Len(s) THEN s[i] ELSE t[i - Len(s)]
    BY ConcatIs
  <2>3. s \o t # <<>> /\ Head(s \o t) = Head(s)
    <3>1. 1 \in 1..(Len(s) + Len(t)) /\ 1 <= Len(s)
      BY <2>1
    <3>2. Head(s \o t) = (s \o t)[1] /\ Head(s) = s[1] /\ s \o t # <<>>
      BY <1>2, <2>1, <2>2
    <3> QED
      BY <2>2, <3>1, <3>2
  <2>4. Tail(s) \in Seq(S) /\ Len(Tail(s)) = Len(s) - 1 /\ \A i \in 1..(Len(s) - 1) : Tail(s)[i] = s[i + 1]
    BY <1>2
  <2> DEFINE u == Tail(s)
             v == s \o t
             w == Tail(v)
  <2>5. /\ w \in Seq(S) /\ Len(w) = Len(v) - 1
        /\ \A i \in 1..(Len(v) - 1) : w[i] = v[i + 1]
    BY <2>2, <2>3
  <2>6. /\ u \o t \in Seq(S) /\ Len(u \o t) = Len(u) + Len(t)
        /\ \A i \in 1..(Len(u) + Len(t)) : (u \o t)[i] = IF i <= Len(u) THEN u[i] ELSE t[i - Len(u)]
    BY <2>4, ConcatIs
  <2> HIDE DEF u, v, w
  <2>7. Len(u) = Len(s) - 1 /\ Len(v) = Len(s) + Len(t)
    BY <2>2, <2>4 DEF u, v
  <2>8. Len(w) = Len(u \o t)
    BY <2>1, <2>5, <2>6, <2>7
  <2>9. ASSUME NEW i \in 1..Len(w) PROVE w[i] = (u \o t)[i]
    <3>1. i \in 1..(Len(v) - 1) /\ i \in 1..(Len(u) + Len(t)) /\ i + 1 \in 1..(Len(s) + Len(t))
      BY <2>1, <2>5, <2>7
    <3>2. w[i] = v[i + 1]
      BY <2>5, <3>1
    <3>3. v[i + 1] = IF i + 1 <= Len(s) THEN s[i + 1] ELSE t[i + 1 - Len(s)]
      BY <2>2, <3>1 DEF v
    <3>4. CASE i + 1 <= Len(s)
      <4>1. i <= Len(u) /\ i \in 1..(Len(s) - 1)
        BY <2>1, <2>7, <3>4
      <4> QED
        BY <2>4, <2>6, <3>1, <3>2, <3>3, <3>4, <4>1 DEF u
    <3>5. CASE ~(i + 1 <= Len(s))
      <4>1. ~(i <= Len(u)) /\ i + 1 - Len(s) = i - Len(u)
        BY <2>1, <2>7, <3>5
      <4> QED
        BY <2>6, <3>1, <3>2, <3>3, <3>5, <4>1
    <3> QED
      BY <3>4, <3>5
  <2>10. w = u \o t
    BY <2>5, <2>6, <2>8, <2>9, SeqEq
  <2> QED
    BY <2>3, <2>10 DEF u, v, w
<1>3. ASSUME t # <<>> PROVE Append(s, Head(t)) \o Tail(t) = s \o t
  <2> DEFINE x == Head(t)
             u == Append(s, x)
             w == Tail(t)
  <2>1. Len(s) \in Nat /\ Len(t) \in Nat /\ Len(t) > 0 /\ x = t[1] /\ x \in S
    BY <1>3
  <2>2. w \in Seq(S) /\ Len(w) = Len(t) - 1 /\ \A i \in 1..(Len(t) - 1) : w[i] = t[i + 1]
    BY <1>3
  <2>3. /\ u \in Seq(S) /\ Len(u) = Len(s) + 1
        /\ \A i \in 1..(Len(s) + 1) : u[i] = IF i <= Len(s) THEN s[i] ELSE x
    BY <2>1
  <2> HIDE DEF x, u, w
  <2>4. /\ u \o w \in Seq(S) /\ Len(u \o w) = Len(u) + Len(w)
        /\ \A i \in 1..(Len(u) + Len(w)) : (u \o w)[i] = IF i <= Len(u) THEN u[i] ELSE w[i - Len(u)]
    BY <2>2, <2>3, ConcatIs
  <2>5. /\ s \o t \in Seq(S) /\ Len(s \o t) = Len(s) + Len(t)
        /\ \A i \in 1..(Len(s) + Len(t)) : (s \o t)[i] = IF i <= Len(s) THEN s[i] ELSE t[i - Len(s)]
    BY ConcatIs
  <2>6. Len(u) + Len(w) = Len(s) + Len(t)
    BY <2>1, <2>2, <2>3
  <2>7. ASSUME NEW i \in 1..(Len(s) + Len(t)) PROVE (u \o w)[i] = (s \o t)[i]
    <3>1. CASE i <= Len(s)
      <4>1. i \in 1..(Len(s) + 1) /\ i <= Len(u)
        BY <2>1, <2>3, <3>1
      <4> QED
        BY <2>3, <2>4, <2>5, <2>6, <3>1, <4>1
    <3>2. CASE i = Len(s) + 1
      <4>1. i \in 1..(Len(s) + 1) /\ ~(i <= Len(s)) /\ i <= Len(u) /\ i - Len(s) = 1
        BY <2>1, <2>3, <3>2
      <4> QED
        BY <2>1, <2>3, <2>4, <2>5, <2>6, <4>1
    <3>3. CASE i > Len(s) + 1
      <4>1. ~(i <= Len(s)) /\ ~(i <= Len(u)) /\ i - Len(u) \in 1..(Len(t) - 1)
            /\ i - Len(u) + 1 = i - Len(s)
        BY <2>1, <2>3, <3>3
      <4>2. w[i - Len(u)] = t[i - Len(u) + 1]
        BY <2>2, <4>1
      <4> QED
        BY <2>4, <2>5, <2>6, <4>1, <4>2
    <3>4. i <= Len(s) \/ i = Len(s) + 1 \/ i > Len(s) + 1
      BY <2>1
    <3> QED
      BY <3>1, <3>2, <3>3, <3>4
  <2>8. u \o w = s \o t
    BY <2>4, <2>5, <2>6, <2>7, SeqEq
  <2> QED
    BY <2>8 DEF u, w, x
<1> QED
  BY <1>1, <1>2, <1>3

\* The lines of a cave and of the patch.
CodeLine == BodyLine \cup {L("anchor", "newmem"), L("anchor", "inject"), L("jmp", "newmem"),
                          L("nop", ""), L("anchor", "return")}

LEMMA CodeLines == \A l \in CodeLine : l.op \in {"anchor"} \cup Emission
<1>1. \A l \in BodyLine : l.op \in Emission
  BY DEF BodyLine
<1>2. \A op, name : L(op, name).op = op
  BY DEF L
<1>3. "jmp" \in Emission /\ "nop" \in Emission
  BY DEF Emission, Jumps
<1>4. ASSUME NEW l \in CodeLine, l \notin BodyLine PROVE l.op \in {"anchor", "jmp", "nop"}
  BY <1>2, <1>4 DEF CodeLine
<1> QED
  BY <1>1, <1>3, <1>4

\* The code of a cave, with the patch behind it.
LEMMA CodeIs ==
  ASSUME NEW b, NEW off, IsBody(b, off)
  PROVE  /\ CodeOf(b) \in Seq(CodeLine) /\ Len(CodeOf(b)) = Len(b) + 5 /\ Len(b) \in Nat
         /\ CodeOf(b)[1] = L("anchor", "newmem")
         /\ \A i \in 1..Len(b) : CodeOf(b)[i + 1] = b[i]
         /\ CodeOf(b)[Len(b) + 2] = L("anchor", "inject")
         /\ CodeOf(b)[Len(b) + 3] = L("jmp", "newmem")
         /\ CodeOf(b)[Len(b) + 4] = L("nop", "")
         /\ CodeOf(b)[Len(b) + 5] = L("anchor", "return")
<1> DEFINE m == Len(b)
<1>1. b \in Seq(BodyLine) /\ m \in Nat /\ \A i \in 1..m : b[i] \in BodyLine
  BY DEF IsBody
<1>2. b \in Seq(CodeLine)
  <2>1. \A i \in 1..m : b[i] \in CodeLine
    BY <1>1 DEF CodeLine
  <2>2. b = [i \in 1..m |-> b[i]]
    BY <1>1
  <2> QED
    BY <1>1, <2>1, <2>2
<1>3. /\ L("anchor", "newmem") \in CodeLine /\ L("anchor", "inject") \in CodeLine
      /\ L("jmp", "newmem") \in CodeLine /\ L("nop", "") \in CodeLine
      /\ L("anchor", "return") \in CodeLine
  BY DEF CodeLine
<1> DEFINE P == Patch
<1>4. /\ P \in Seq(CodeLine) /\ Len(P) = 4 /\ P[1] = L("anchor", "inject")
      /\ P[2] = L("jmp", "newmem") /\ P[3] = L("nop", "") /\ P[4] = L("anchor", "return")
  BY <1>3, Short DEF Patch
<1> HIDE DEF m, P
<1>5. /\ b \o P \in Seq(CodeLine) /\ Len(b \o P) = m + 4
      /\ \A i \in 1..(m + 4) : (b \o P)[i] = IF i <= m THEN b[i] ELSE P[i - m]
  <2>1. /\ b \o P \in Seq(CodeLine) /\ Len(b \o P) = Len(b) + Len(P)
        /\ \A i \in 1..(Len(b) + Len(P)) : (b \o P)[i] = IF i <= Len(b) THEN b[i] ELSE P[i - Len(b)]
    BY <1>2, <1>4, ConcatIs
  <2> QED
    BY <1>4, <2>1 DEF m
<1> DEFINE first == <<L("anchor", "newmem")>>
           rest == b \o P
<1>6. first \in Seq(CodeLine) /\ Len(first) = 1 /\ first[1] = L("anchor", "newmem")
  BY <1>3, Short
<1> HIDE DEF first, rest
<1>7. rest \in Seq(CodeLine) /\ Len(rest) = m + 4
  BY <1>5 DEF rest
<1>8. /\ first \o rest \in Seq(CodeLine) /\ Len(first \o rest) = 1 + (m + 4)
      /\ \A i \in 1..(1 + (m + 4)) :
           (first \o rest)[i] = IF i <= 1 THEN first[i] ELSE rest[i - 1]
  <2>1. /\ first \o rest \in Seq(CodeLine) /\ Len(first \o rest) = Len(first) + Len(rest)
        /\ \A i \in 1..(Len(first) + Len(rest)) : (first \o rest)[i] =
             IF i <= Len(first) THEN first[i] ELSE rest[i - Len(first)]
    BY <1>6, <1>7, ConcatIs
  <2> QED
    BY <1>6, <1>7, <2>1
<1>9. CodeOf(b) = first \o rest
  BY DEF CodeOf, first, rest, P
<1>10. m \in Nat
  BY <1>1 DEF m
<1>11. (first \o rest)[1] = L("anchor", "newmem")
  BY <1>6, <1>8, <1>10
<1>12. ASSUME NEW i \in 1..m PROVE (first \o rest)[i + 1] = b[i]
  <2>1. i + 1 \in 1..(1 + (m + 4)) /\ ~(i + 1 <= 1) /\ i + 1 - 1 = i /\ i \in 1..(m + 4) /\ i <= m
    BY <1>10
  <2> QED
    BY <1>5, <1>8, <2>1 DEF rest
<1>13. ASSUME NEW j \in 1..4, NEW i, i = m + 1 + j PROVE (first \o rest)[i] = P[j]
  <2>1. i \in 1..(1 + (m + 4)) /\ ~(i <= 1)
    BY <1>10, <1>13
  <2>2. (first \o rest)[i] = rest[i - 1]
    BY <1>8, <2>1
  <2> DEFINE n == i - 1
  <2>3. n \in 1..(m + 4) /\ ~(n <= m) /\ n - m = j
    BY <1>10, <1>13
  <2> HIDE DEF n
  <2>4. rest[n] = P[n - m]
    BY <1>5, <2>3 DEF rest
  <2> QED
    BY <2>2, <2>3, <2>4 DEF n
<1>14. /\ (first \o rest)[m + 2] = P[1] /\ (first \o rest)[m + 3] = P[2]
       /\ (first \o rest)[m + 4] = P[3] /\ (first \o rest)[m + 5] = P[4]
  <2>1. m + 2 = m + 1 + 1 /\ m + 3 = m + 1 + 2 /\ m + 4 = m + 1 + 3 /\ m + 5 = m + 1 + 4
    BY <1>10
  <2>2. 1 \in 1..4 /\ 2 \in 1..4 /\ 3 \in 1..4 /\ 4 \in 1..4
    OBVIOUS
  <2> QED
    BY <1>13, <2>1, <2>2
<1>15. Len(first \o rest) = m + 5
  BY <1>8, <1>10
<1> QED
  BY <1>4, <1>8, <1>9, <1>10, <1>11, <1>12, <1>14, <1>15 DEF m


LEMMA Wider ==
  ASSUME NEW S, NEW T, S \subseteq T, NEW s \in Seq(S)
  PROVE  s \in Seq(T)
<1>1. s = [i \in 1..Len(s) |-> s[i]] /\ Len(s) \in Nat /\ \A i \in 1..Len(s) : s[i] \in S
  OBVIOUS
<1>2. \A i \in 1..Len(s) : s[i] \in T
  BY <1>1
<1> QED
  BY <1>1, <1>2

LEMMA ItemLines == JobOK => job.items \in Seq(OfScripts) /\ job.lines \in Seq(OfScripts)
<1> SUFFICES ASSUME JobOK PROVE job.items \in Seq(OfScripts) /\ job.lines \in Seq(OfScripts)
  OBVIOUS
<1>1. job.items \in Seq(Item) /\ job.lines \in Seq(OfScripts) /\ Item \subseteq OfScripts
  BY JobParts DEF Item
<1> QED
  BY <1>1, Wider

\* The commands come first, then the code.
LEMMA AtScanning ==
  ASSUME job.lines # <<>>, job.section = "enable", job.deferred = <<>>,
         NEW b, NEW off, IsBody(b, off), Scanning(b)
  PROVE  AtCommand \/ AtCode
<1>1. PICK r \in Seq(CommandLine) : job.lines = r \o CodeOf(b) /\ (HasScan(r) \/ Ready)
  BY DEF Scanning
<1> DEFINE S == CommandLine \cup CodeLine
           C == CodeOf(b)
<1>2. C \in Seq(CodeLine) /\ C \in Seq(S) /\ C # <<>>
  <2>1. C \in Seq(CodeLine) /\ Len(C) = Len(b) + 5 /\ Len(b) \in Nat
    BY CodeIs
  <2>2. CodeLine \subseteq S
    OBVIOUS
  <2> HIDE DEF C, S
  <2>3. C # <<>>
    BY <2>1
  <2> QED
    BY <2>1, <2>2, <2>3, Wider
<1>3. r \in Seq(S)
  <2>1. CommandLine \subseteq S
    OBVIOUS
  <2> HIDE DEF S
  <2> QED
    BY <2>1, Wider
<1>4. job.items = <<>>
  BY DEF Scanning
<1> HIDE DEF S, C
<1>5. CASE r = <<>>
  <2>1. job.lines = C /\ Ready
    <3>1. ~HasScan(r)
      BY <1>5 DEF HasScan
    <3> QED
      BY <1>1, <1>2, <1>3, <1>5, <3>1, HeadTail DEF C
  <2>2. <<>> \in Seq(CodeLine)
    OBVIOUS
  <2>3. Append(<<>>, Head(C)) \o Tail(C) = C
    BY <1>2, <2>2, HeadTail
  <2>4. Line \in CodeLine
    BY <1>2, <2>1 DEF Line
  <2>5. Append(job.items, Line) \o Tail(job.lines) = CodeOf(b)
    BY <1>4, <2>1, <2>3 DEF Line, C
  <2> QED
    BY <2>1, <2>4, <2>5, CodeLines DEF AtCode
<1>6. CASE r # <<>>
  <2>1. Line = Head(r) /\ Tail(job.lines) = Tail(r) \o C
    BY <1>1, <1>2, <1>3, <1>6, HeadTail DEF Line, C
  <2>2. Head(r) \in CommandLine /\ Tail(r) \in Seq(CommandLine)
    BY <1>6
  <2>3. HasScan(r) => Head(r).op = "aobscanmodule" \/ HasScan(Tail(r))
    <3> SUFFICES ASSUME HasScan(r), Head(r).op # "aobscanmodule" PROVE HasScan(Tail(r))
      OBVIOUS
    <3>1. PICK i \in 1..Len(r) : r[i].op = "aobscanmodule"
      BY DEF HasScan
    <3>2. i # 1
      BY <3>1, <1>6
    <3> DEFINE j == i - 1
    <3>3. j \in 1..(Len(r) - 1) /\ j + 1 = i /\ Len(r) \in Nat
      BY <3>2
    <3>4. Len(Tail(r)) = Len(r) - 1 /\ Tail(r)[j] = r[j + 1]
      BY <1>6, <3>3
    <3> HIDE DEF j
    <3> QED
      BY <3>1, <3>3, <3>4 DEF HasScan
  <2> QED
    BY <1>1, <1>4, <2>1, <2>2, <2>3 DEF AtCommand, C
<1> QED
  BY <1>5, <1>6

LEMMA AtCollecting ==
  ASSUME JobOK, job.lines # <<>>, job.section = "enable", job.deferred = <<>>,
         NEW b, NEW off, IsBody(b, off), Collecting(b)
  PROVE  AtCode
<1>1. job.items \in Seq(OfScripts) /\ job.lines \in Seq(OfScripts)
  BY ItemLines
<1>2. job.items \o job.lines = CodeOf(b) /\ Ready
  BY DEF Collecting
<1>3. Append(job.items, Head(job.lines)) \o Tail(job.lines) = CodeOf(b)
  <2>1. Append(job.items, Head(job.lines)) \o Tail(job.lines) = job.items \o job.lines
    <3> DEFINE s == job.items
               t == job.lines
    <3>1. s \in Seq(OfScripts) /\ t \in Seq(OfScripts) /\ t # <<>>
      BY <1>1
    <3> HIDE DEF s, t
    <3>2. Append(s, Head(t)) \o Tail(t) = s \o t
      BY <3>1, HeadTail
    <3> QED
      BY <3>2 DEF s, t
  <2> QED
    BY <1>2, <2>1
<1>4. Line \in CodeLine
  <2>1. ToSet(job.items \o job.lines) \subseteq CodeLine
    <3>1. CodeOf(b) \in Seq(CodeLine)
      BY CodeIs
    <3>2. \A i \in DOMAIN CodeOf(b) : CodeOf(b)[i] \in CodeLine
      BY <3>1
    <3> QED
      BY <1>2, <3>2 DEF ToSet
  <2>2. job.lines \in Seq(CodeLine)
    BY <1>1, <2>1, PartsOf
  <2> QED
    BY <2>2 DEF Line
<1> QED
  BY <1>2, <1>3, <1>4, CodeLines DEF AtCode, Line

LEMMA AtRestoring ==
  ASSUME job.lines # <<>>, job.section = "disable", job.deferred \in Seq(CleanLine), Restoring
  PROVE  AtRestore \/ AtCleanup
<1> DEFINE x == L("anchor", "inject")
           y == L("db", "")
           S == CleanLine \cup {x, y}
<1>1. ASSUME NEW clean \in Seq(CleanLine) PROVE clean \in Seq(S)
  <2>1. CleanLine \subseteq S
    OBVIOUS
  <2> HIDE DEF S
  <2> QED
    BY <2>1, Wider
<1>2. x \in S /\ y \in S
  OBVIOUS
<1> HIDE DEF x, y, S
<1>3. /\ <<x, y>> \in Seq(S) /\ <<x, y>> # <<>> /\ Head(<<x, y>>) = x /\ Tail(<<x, y>>) = <<y>>
      /\ <<y>> \in Seq(S) /\ <<y>> # <<>> /\ Head(<<y>>) = y /\ Tail(<<y>>) = <<>>
  BY <1>2
<1>4. CASE job.items = <<>> /\ \E clean \in Seq(CleanLine) : job.lines = Restore \o clean
  <2>1. PICK clean \in Seq(CleanLine) : job.lines = <<x, y>> \o clean
    BY <1>4 DEF Restore, x, y
  <2>2. Head(job.lines) = x /\ Tail(job.lines) = <<y>> \o clean
    BY <1>1, <1>3, <2>1, HeadTail
  <2> QED
    BY <1>4, <2>2 DEF AtRestore, Line, x, y
<1>5. CASE job.items = <<x>> /\ \E clean \in Seq(CleanLine) : job.lines = <<y>> \o clean
  <2>1. PICK clean \in Seq(CleanLine) : job.lines = <<y>> \o clean
    BY <1>5
  <2>2. Head(job.lines) = y /\ Tail(job.lines) = <<>> \o clean
    BY <1>1, <1>3, <2>1, HeadTail
  <2>3. <<>> \o clean = clean
    OBVIOUS
  <2> QED
    BY <1>5, <2>2, <2>3 DEF AtRestore, Line, x, y
<1>6. CASE job.items = Restore /\ job.lines \in Seq(CleanLine)
  <2>1. Head(job.lines) \in CleanLine /\ Tail(job.lines) \in Seq(CleanLine)
    BY <1>6
  <2> QED
    BY <1>6, <2>1 DEF AtCleanup, Line
<1> QED
  BY <1>4, <1>5, <1>6 DEF Restoring, x, y

LEMMA CommandState ==
  ASSUME PatchInv, job.pc = "commands", job.lines # <<>>
  PROVE  AtCommand \/ AtCode \/ AtRestore \/ AtCleanup
<1>1. \/ job.section = "enable" /\ Enabling
      \/ job.section = "disable" /\ Disabling
  BY DEF PatchInv, JobInv
<1>2. CASE job.section = "enable" /\ Enabling
  <2>1. PICK b, off : /\ IsBody(b, off)
                      /\ \/ Scanning(b) \/ Collecting(b)
                         \/ \E k \in 0..(Len(b) + 2) : Patching(b, off, k)
    BY <1>2 DEF Enabling
  <2>2. \A k : ~Patching(b, off, k)
    BY DEF Patching
  <2>3. job.deferred = <<>> /\ JobOK
    BY <1>2 DEF Enabling, PatchInv, Typed
  <2> QED
    BY <1>2, <2>1, <2>2, <2>3, AtScanning, AtCollecting
<1>3. CASE job.section = "disable" /\ Disabling
  <2>1. Restoring /\ job.deferred \in Seq(CleanLine)
    BY <1>3 DEF Disabling, Undoing
  <2> QED
    BY <1>3, <2>1, AtRestoring
<1> QED
  BY <1>1, <1>2, <1>3


LEMMA Pair == ASSUME NEW x, NEW y PROVE Append(<<x>>, y) = <<x, y>>
<1> DEFINE S == {x, y}
<1>1. x \in S /\ y \in S
  OBVIOUS
<1> HIDE DEF S
<1>2. <<x>> \in Seq(S) /\ Len(<<x>>) = 1 /\ <<x>>[1] = x
  BY <1>1, Short
<1>3. <<x, y>> \in Seq(S) /\ Len(<<x, y>>) = 2 /\ <<x, y>>[1] = x /\ <<x, y>>[2] = y
  BY <1>1, Short
<1> DEFINE s == <<x>>
           t == <<x, y>>
           u == Append(s, y)
<1> HIDE DEF s, t
<1>4. u \in Seq(S) /\ Len(u) = 2 /\ u[1] = x /\ u[2] = y
  BY <1>1, <1>2 DEF s
<1>5. t \in Seq(S) /\ Len(t) = 2 /\ t[1] = x /\ t[2] = y
  BY <1>3 DEF t
<1> HIDE DEF u
<1>6. \A i \in 1..2 : u[i] = t[i]
  BY <1>4, <1>5
<1>7. u = t
  BY <1>4, <1>5, <1>6, SeqEq
<1> QED
  BY <1>7 DEF s, t, u

LEMMA LineKinds ==
  /\ AtCommand => Line.op \in {"alloc", "aobscanmodule"}
  /\ AtCommand /\ Line.op = "alloc" => Line.name = "newmem"
  /\ AtCommand /\ Line.op = "aobscanmodule" => Line.name = "inject"
  /\ AtCode \/ AtRestore => Line.op \in {"anchor", "db", "nop", "jmp", "je"}
  /\ AtCleanup => Line.op \in {"unregistersymbol", "dealloc"}
<1>1. AtCommand => \/ Line.op = "alloc" /\ Line.name = "newmem"
                   \/ Line.op = "aobscanmodule" /\ Line.name = "inject"
  BY DEF AtCommand, CommandLine
<1>2. AtCode => Line.op \in {"anchor", "db", "nop", "jmp", "je"}
  BY DEF AtCode, Emission, Jumps
<1>3. AtRestore => Line.op \in {"anchor", "db"}
  <2>1. \A op, name : L(op, name).op = op
    BY DEF L
  <2>2. AtRestore => Line = L("anchor", "inject") \/ Line = L("db", "")
    BY DEF AtRestore
  <2> QED
    BY <2>1, <2>2
<1>4. AtCleanup => Line.op \in {"unregistersymbol", "dealloc"}
  BY DEF AtCleanup, CleanLine
<1> QED
  BY <1>1, <1>2, <1>3, <1>4

\* After a line is taken.
LEMMA LineDoneIs ==
  ASSUME JobOK, job' = LineDone
  PROVE  /\ job'.pc = job.pc /\ job'.section = job.section /\ job'.lines = Tail(job.lines)
         /\ job'.items = job.items /\ job'.deferred = job.deferred
BY DEF JobOK, JobType, LineDone

\* A command leaves the code to be collected.
LEMMA CommandDone ==
  ASSUME PatchInv, AtCommand, job.pc = "commands", job' = LineDone, outcome' = outcome,
         Line.op = "aobscanmodule" => Ready', Ready => Ready'
  PROVE  JobInv' /\ OutcomeInv'
<1>1. /\ job'.pc = job.pc /\ job'.section = job.section /\ job'.lines = Tail(job.lines)
      /\ job'.items = job.items /\ job'.deferred = job.deferred
  BY LineDoneIs DEF PatchInv, Typed
<1>2. PICK b, off : /\ IsBody(b, off)
                    /\ \E r \in Seq(CommandLine) :
                         /\ Tail(job.lines) = r \o CodeOf(b)
                         /\ Line.op = "aobscanmodule" \/ HasScan(r) \/ Ready
  BY DEF AtCommand
<1>3. PICK r \in Seq(CommandLine) :
        /\ Tail(job.lines) = r \o CodeOf(b)
        /\ Line.op = "aobscanmodule" \/ HasScan(r) \/ Ready
  BY <1>2
<1>4. HasScan(r) \/ Ready'
  BY <1>3
<1>5. job'.items = <<>> /\ job'.deferred = <<>> /\ job'.section = "enable" /\ job'.pc = "commands"
  BY <1>1 DEF AtCommand
<1>6. Scanning(b)'
  BY <1>1, <1>3, <1>4, <1>5 DEF Scanning
<1>7. IsBody(b, off)'
  BY <1>2 DEF IsBody
<1>8. outcome' = NoOutcome
  BY DEF PatchInv, JobInv
<1> QED
  BY <1>5, <1>6, <1>7, <1>8, Outcomes DEF JobInv, Enabling, OutcomeInv

LEMMA AllocPatch == PatchInv /\ OneTarget /\ Alloc => PatchInv'
<1> SUFFICES ASSUME PatchInv, OneTarget, Alloc PROVE PatchInv'
  OBVIOUS
<1> USE DEF PatchInv, Typed
<1>1. /\ job.pc = "commands" /\ job.lines # <<>> /\ Line.op = "alloc" /\ job' = LineDone
      /\ UNCHANGED <<attached, script, outcome>>
  BY DEF Alloc, Doing, user
<1>2. PICK p \in Proc \ Blocked : p = attached
  BY <1>1, JobParts
<1>3. AtCommand /\ Line.name = "newmem"
  BY <1>1, CommandState, LineKinds
<1>4. PICK c \in AllocChoice :
        /\ BlockChange(p, c, "assembler", "zero")
        /\ symbols' = With(symbols, Line.name, c)
        /\ allocs' = Append(allocs, [name |-> Line.name, at |-> c])
  BY <1>2 DEF Alloc, BlockChange
<1>5. c \in Cave /\ owner[p][c] = "free"
  BY <1>2 DEF AllocChoice, Free
<1>6. ASSUME NEW q \in Proc PROVE Spared(q)
  BY <1>2, <1>4, <1>5, BlockSpares
<1>7. ASSUME NEW q \in Proc PROVE ModuleOK(q)' /\ (Intact(q)' \/ Hooked(q)') /\ (Intact(q) => Intact(q)')
  BY <1>6, SparedKept DEF ProcInv
<1>8. owner'[p][c] = "assembler"
  BY <1>2, <1>4, <1>5, BlockChanges
<1>9. /\ DOMAIN symbols' = DOMAIN symbols \cup {"newmem"}
      /\ \A n \in DOMAIN symbols' : symbols'[n] = IF n = "newmem" THEN c ELSE symbols[n]
  BY <1>3, <1>4 DEF With
<1>10. SymbolsOK(p)'
  <2>1. SymbolsOK(p)
    BY <1>2 DEF ProcInv
  <2> QED
    BY <1>1, <1>5, <1>8, <1>9, <2>1 DEF SymbolsOK
<1>11. AllocsOK(p)'
  <2>1. AllocsOK(p)
    BY <1>2 DEF ProcInv
  <2> DEFINE x == [name |-> Line.name, at |-> c]
  <2>2. allocs \in Seq(Alloced) /\ Len(allocs) \in Nat
    BY DEF StateOK
  <2>3. /\ allocs' = Append(allocs, x) /\ x.name = "newmem" /\ x.at = c
    BY <1>3, <1>4
  <2> HIDE DEF x
  <2>4. /\ Len(allocs') = Len(allocs) + 1
        /\ \A i \in 1..(Len(allocs) + 1) : allocs'[i] = IF i <= Len(allocs) THEN allocs[i] ELSE x
    BY <2>2, <2>3
  <2>5. \A i \in 1..Len(allocs) : allocs[i].at \in Cave
    <3>1. \A i \in 1..Len(allocs) : allocs[i] \in Alloced
      BY <2>2
    <3> QED
      BY <3>1 DEF Alloced
  <2>6. ASSUME NEW i \in 1..Len(allocs)
        PROVE  /\ allocs[i].name = "newmem" /\ owner'[p][allocs[i].at] = "assembler"
               /\ allocs[i].at # c
    <3>1. owner[p][allocs[i].at] = "assembler" /\ allocs[i].name = "newmem"
      BY <2>1 DEF AllocsOK
    <3> QED
      BY <1>2, <1>5, <1>6, <2>5, <3>1 DEF Spared
  <2>7. \A i \in 1..(Len(allocs) + 1) : i <= Len(allocs) => i \in 1..Len(allocs)
    BY <2>2
  <2>8. \A i, j \in 1..(Len(allocs) + 1) :
          i > Len(allocs) /\ j > Len(allocs) => i = j
    BY <2>2
  <2>9. \A i \in 1..(Len(allocs) + 1) : i <= Len(allocs) \/ i > Len(allocs)
    BY <2>2
  <2>10. ASSUME NEW i \in 1..Len(allocs')
         PROVE  allocs'[i].name = "newmem" /\ owner'[p][allocs'[i].at] = "assembler"
    BY <1>8, <2>3, <2>4, <2>6, <2>7
  <2>11. ASSUME NEW i \in 1..Len(allocs'), NEW j \in 1..Len(allocs'), i # j
         PROVE  allocs'[i].at # allocs'[j].at
    <3>1. CASE i <= Len(allocs) /\ j <= Len(allocs)
      BY <2>1, <2>4, <2>7, <2>11, <3>1 DEF AllocsOK
    <3>2. CASE i <= Len(allocs) /\ ~(j <= Len(allocs))
      BY <2>3, <2>4, <2>6, <2>7, <3>2
    <3>3. CASE ~(i <= Len(allocs)) /\ j <= Len(allocs)
      BY <2>3, <2>4, <2>6, <2>7, <3>3
    <3>4. CASE ~(i <= Len(allocs)) /\ ~(j <= Len(allocs))
      BY <2>2, <2>4, <2>11, <3>4
    <3> QED
      BY <3>1, <3>2, <3>3, <3>4
  <2> QED
    BY <1>1, <2>10, <2>11 DEF AllocsOK
<1>12. ProcInv'
  <2>1. \A q \in Proc \ Blocked : q = p
    BY DEF OneTarget
  <2> QED
    BY <1>7, <1>10, <1>11, <2>1 DEF ProcInv
<1>13. Ready => Ready'
  <2>1. Intact(p) => Intact(p)'
    BY <1>2, <1>7
  <2> QED
    BY <1>1, <1>2, <1>9, <2>1 DEF Ready, Intact
<1>14. JobInv' /\ OutcomeInv'
  BY <1>1, <1>3, <1>13, CommandDone
<1>15. Typed'
  BY AllocTyped
<1> QED
  BY <1>12, <1>14, <1>15

\* Only the untouched instruction looks like the pattern.
LEMMA FoundIs ==
  ASSUME ProcInv, attached \in Proc, Line.op = "aobscanmodule", Found # {}
  PROVE  Intact(attached) /\ Found = {Site[attached]}
<1> DEFINE s == Site[attached]
<1>1. ModuleOK(attached) /\ (Intact(attached) \/ Hooked(attached))
  BY DEF ProcInv
<1>2. s \in Module /\ s + 1 \in Module /\ s # s + 1
  BY Places
<1>3. Found = {a \in Module : /\ a + 1 \in Module
                              /\ mem[attached][a].op = "o1" /\ mem[attached][a + 1].op = "o2"}
  BY DEF Found
<1>4. Intact(attached) => mem[attached][s].op = "o1" /\ mem[attached][s + 1].op = "o2"
  BY DEF Intact
<1>5. Hooked(attached) => mem[attached][s].op = "jmp" /\ mem[attached][s + 1].op # "o1"
  BY DEF Hooked, HookedTo
<1>6. ASSUME NEW a \in Found PROVE a = s /\ Intact(attached)
  <2>1. a \in Module /\ mem[attached][a].op = "o1"
    BY <1>3
  <2>2. a \in {s, s + 1}
    BY <1>1, <2>1 DEF ModuleOK
  <2>3. mem[attached][s + 1].op # "o1"
    BY <1>1, <1>4, <1>5
  <2>4. a = s
    BY <2>1, <2>2, <2>3
  <2> QED
    BY <1>1, <1>5, <2>1, <2>4
<1> QED
  BY <1>6

LEMMA ScanPatch == PatchInv /\ OneTarget /\ Scan => PatchInv'
<1> SUFFICES ASSUME PatchInv, OneTarget, Scan PROVE PatchInv'
  OBVIOUS
<1> USE DEF PatchInv, Typed
<1>1. /\ job.pc = "commands" /\ job.lines # <<>> /\ job' = LineDone
      /\ Line.op \in {"aobscan", "aobscanmodule"} /\ Found # {}
      /\ symbols' = With(symbols, Line.name, Min(Found))
      /\ UNCHANGED <<mem, owner, attached, script, allocs, outcome>>
  BY DEF Scan, Doing, user
<1>2. PICK p \in Proc \ Blocked : p = attached
  BY <1>1, JobParts
<1>3. AtCommand /\ Line.op = "aobscanmodule" /\ Line.name = "inject"
  BY <1>1, CommandState, LineKinds
<1>4. Intact(p) /\ Min(Found) = Site[p]
  <2>1. Intact(p) /\ Found = {Site[p]}
    BY <1>1, <1>2, <1>3, FoundIs DEF Intact
  <2>2. Found \in SUBSET Nat
    BY <1>2, <2>1, Places
  <2> QED
    BY <1>1, <2>1, <2>2, MinIsMember
<1>5. /\ DOMAIN symbols' = DOMAIN symbols \cup {"inject"}
      /\ \A n \in DOMAIN symbols' : symbols'[n] = IF n = "inject" THEN Site[p] ELSE symbols[n]
  BY <1>1, <1>3, <1>4 DEF With
<1>6. \A q \in Proc : Spared(q)
  BY <1>1, SameSpares
<1>7. \A q \in Proc : ModuleOK(q)' /\ (Intact(q)' \/ Hooked(q)')
  BY <1>6, SparedKept DEF ProcInv
<1>8. SymbolsOK(p)'
  <2>1. SymbolsOK(p)
    BY <1>2 DEF ProcInv
  <2> QED
    BY <1>1, <1>5, <2>1 DEF SymbolsOK
<1>9. AllocsOK(p)'
  <2>1. AllocsOK(p)
    BY <1>2 DEF ProcInv
  <2> QED
    BY <1>1, <2>1 DEF AllocsOK
<1>10. ProcInv'
  <2>1. \A q \in Proc \ Blocked : q = p
    BY DEF OneTarget
  <2> QED
    BY <1>7, <1>8, <1>9, <2>1 DEF ProcInv
<1>11. Ready'
  BY <1>1, <1>2, <1>4, <1>5 DEF Ready, Intact
<1>12. JobInv' /\ OutcomeInv'
  BY <1>1, <1>3, <1>11, CommandDone
<1>13. Typed'
  BY ScanTyped
<1> QED
  BY <1>10, <1>12, <1>13

LEMMA DeferPatch == PatchInv /\ Defer => PatchInv'
<1> SUFFICES ASSUME PatchInv, Defer PROVE PatchInv'
  OBVIOUS
<1> USE DEF PatchInv, Typed
<1>1. /\ job.pc = "commands" /\ job.lines # <<>>
      /\ Line.op \in {"unregistersymbol", "dealloc"}
      /\ job' = [LineDone EXCEPT !.deferred = Append(@, Line)]
      /\ UNCHANGED <<mem, owner, symbols, allocs, outcome>>
  BY DEF Defer, Doing, asm
<1>2. AtCleanup
  BY <1>1, CommandState, LineKinds
<1>3. /\ job'.pc = job.pc /\ job'.section = job.section /\ job'.lines = Tail(job.lines)
      /\ job'.items = job.items /\ job'.deferred = Append(job.deferred, Line)
  BY <1>1 DEF JobOK, JobType, LineDone
<1>4. Append(job.deferred, Line) \in Seq(CleanLine)
  BY <1>2 DEF AtCleanup
<1>5. Restoring'
  BY <1>1, <1>2, <1>3 DEF AtCleanup, Restoring
<1>6. outcome' = NoOutcome
  BY <1>1 DEF JobInv
<1>7. JobInv' /\ OutcomeInv'
  BY <1>2, <1>3, <1>4, <1>5, <1>6, Outcomes DEF JobInv, Disabling, AtCleanup, OutcomeInv
<1>8. ProcInv'
  BY <1>1, SameSpares, SparedProcs DEF StateOK
<1>9. Typed'
  BY DeferTyped
<1> QED
  BY <1>7, <1>8, <1>9

LEMMA CollectPatch == PatchInv /\ Collect => PatchInv'
<1> SUFFICES ASSUME PatchInv, Collect PROVE PatchInv'
  OBVIOUS
<1> USE DEF PatchInv, Typed
<1>1. /\ job.pc = "commands" /\ job.lines # <<>>
      /\ Line.op \in {"anchor"} \cup Emission
      /\ job' = [LineDone EXCEPT !.items = Append(@, Line)]
      /\ UNCHANGED <<mem, owner, attached, symbols, allocs, outcome>>
  BY DEF Collect, Doing, user, asm
<1>2. AtCode \/ AtRestore
  BY <1>1, CommandState, LineKinds DEF Emission, Jumps
<1>3. /\ job'.pc = "commands" /\ job'.section = job.section /\ job'.lines = Tail(job.lines)
      /\ job'.items = Append(job.items, Line) /\ job'.deferred = job.deferred
  BY <1>1 DEF JobOK, JobType, LineDone
<1>4. outcome' = NoOutcome
  BY <1>1 DEF JobInv
<1>5. ASSUME AtCode PROVE JobInv'
  <2>1. PICK b, off : /\ IsBody(b, off)
                      /\ Append(job.items, Line) \o Tail(job.lines) = CodeOf(b)
    BY <1>5 DEF AtCode
  <2>2. Ready'
    BY <1>1, <1>5 DEF AtCode, Ready, Intact
  <2>3. Collecting(b)' /\ IsBody(b, off)'
    BY <1>3, <2>1, <2>2 DEF Collecting, IsBody
  <2>4. job'.section = "enable" /\ job'.deferred = <<>>
    BY <1>3, <1>5 DEF AtCode
  <2> QED
    BY <1>4, <2>3, <2>4 DEF JobInv, Enabling
<1>6. ASSUME AtRestore PROVE JobInv'
  <2>1. job'.section = "disable" /\ job'.deferred \in Seq(CleanLine)
    BY <1>3, <1>6 DEF AtRestore
  <2>2. CASE /\ job.items = <<>> /\ Line = L("anchor", "inject")
             /\ \E clean \in Seq(CleanLine) : Tail(job.lines) = <<L("db", "")>> \o clean
    <3>1. Append(<<>>, L("anchor", "inject")) = <<L("anchor", "inject")>>
      OBVIOUS
    <3> QED
      BY <1>3, <1>4, <2>1, <2>2, <3>1 DEF JobInv, Disabling, Restoring
  <2>3. CASE /\ job.items = <<L("anchor", "inject")>> /\ Line = L("db", "")
             /\ Tail(job.lines) \in Seq(CleanLine)
    <3>1. \A x, y : Append(<<x>>, y) = <<x, y>>
      BY Pair
    <3>2. job'.items = Restore
      BY <1>3, <2>3, <3>1 DEF Restore
    <3> QED
      BY <1>3, <1>4, <2>1, <2>3, <3>2 DEF JobInv, Disabling, Restoring
  <2> QED
    BY <1>6, <2>2, <2>3 DEF AtRestore
<1>7. JobInv'
  BY <1>2, <1>5, <1>6
<1>8. OutcomeInv'
  BY <1>4, Outcomes DEF OutcomeInv
<1>9. ProcInv'
  BY <1>1, SameSpares, SparedProcs DEF StateOK
<1>10. Typed'
  BY DeferTyped
<1> QED
  BY <1>7, <1>8, <1>9, <1>10


-----------------------------------------------------------------------------
(* The layout.                                                             *)

\* What Place does with a line: with an anchor that is a symbol, with one that
\* becomes one, with one that cannot, and with code.
LEMMA PlaceKnown ==
  ASSUME NEW l \in Lay, NEW line, l.ok, line.op = "anchor", line.name \in DOMAIN l.symbols
  PROVE  /\ Place(l, line).ok /\ Place(l, line).symbols = l.symbols
         /\ Place(l, line).cursor = l.symbols[line.name]
         /\ Place(l, line).placed = l.placed
<1>1. Place(l, line) = [l EXCEPT !.cursor = l.symbols[line.name]]
  BY DEF Place, Anchor
<1> QED
  BY <1>1 DEF Lay

LEMMA PlaceNew ==
  ASSUME NEW l \in Lay, NEW line, l.ok, line.op = "anchor",
         line.name \notin DOMAIN l.symbols, l.cursor # 0
  PROVE  /\ Place(l, line).ok /\ Place(l, line).placed = l.placed
         /\ Place(l, line).symbols = With(l.symbols, line.name, l.cursor)
<1>1. Place(l, line) = [l EXCEPT !.symbols = With(l.symbols, line.name, l.cursor)]
  BY DEF Place, Anchor, Lay
<1> QED
  BY <1>1 DEF Lay

LEMMA PlaceNowhere ==
  ASSUME NEW l \in Lay, NEW line, l.ok, line.op = "anchor",
         line.name \notin DOMAIN l.symbols, l.cursor = 0
  PROVE  ~Place(l, line).ok /\ Place(l, line).symbols = l.symbols
<1>1. Place(l, line) = [l EXCEPT !.ok = FALSE]
  BY DEF Place, Anchor
<1> QED
  BY <1>1 DEF Lay

LEMMA PlaceCode ==
  ASSUME NEW l \in Lay, NEW line, l.ok, line.op # "anchor", l.cursor # 0
  PROVE  /\ Place(l, line).ok /\ Place(l, line).symbols = l.symbols
         /\ Place(l, line).cursor = l.cursor + LineSize(line)
         /\ Place(l, line).placed = Append(l.placed, [at |-> l.cursor, line |-> line])
<1>1. Place(l, line) = [l EXCEPT !.placed = Append(l.placed, [at |-> l.cursor, line |-> line]),
                                 !.cursor = l.cursor + LineSize(line)]
  BY DEF Place, Lay
<1> QED
  BY <1>1 DEF Lay

LEMMA LIs == ASSUME NEW op, NEW name PROVE L(op, name).op = op /\ L(op, name).name = name
BY DEF L

\* Once the layout has failed it has failed.
LEMMA FailedStays ==
  ASSUME job.items \in Seq(Item), symbols \in Table, Len(job.items) > 0,
         job.items[1].op = "anchor", job.items[1].name \notin DOMAIN symbols
  PROVE  ~Laid.ok /\ Laid.symbols = symbols
<1>1. PICK f : /\ f[0] = Begun /\ Laid = f[Len(job.items)]
               /\ \A n \in 1..Len(job.items) : f[n] = Place(f[n - 1], job.items[n])
               /\ \A n \in 0..Len(job.items) : f[n] \in Lay
  BY LaidSteps
<1> DEFINE N == Len(job.items)
           S == {n \in Nat : n + 1 <= N => ~f[n + 1].ok /\ f[n + 1].symbols = symbols}
<1>2. N \in Nat /\ N > 0
  OBVIOUS
<1>3. 0 \in S
  <2>1. f[1] = Place(f[0], job.items[1]) /\ f[0] \in Lay
    <3>1. 1 \in 1..N /\ 1 - 1 = 0 /\ 0 \in 0..N
      BY <1>2
    <3> QED
      BY <1>1, <3>1
  <2>2. f[0].ok /\ f[0].symbols = symbols /\ f[0].cursor = 0
    BY <1>1 DEF Begun
  <2>3. ~f[1].ok /\ f[1].symbols = symbols
    <3>1. job.items[1].name \notin DOMAIN f[0].symbols
      BY <2>2
    <3>2. f[1].symbols = f[0].symbols /\ ~f[1].ok
      BY <2>1, <2>2, <3>1, PlaceNowhere
    <3> QED
      BY <2>2, <3>2
  <2> QED
    BY <2>3
<1>4. ASSUME NEW n \in S PROVE n + 1 \in S
  <2> SUFFICES ASSUME n + 1 + 1 <= N
               PROVE  ~f[n + 1 + 1].ok /\ f[n + 1 + 1].symbols = symbols
    OBVIOUS
  <2> DEFINE k == n + 1 + 1
  <2>1. k \in 1..N /\ k - 1 = n + 1 /\ n + 1 \in 0..N /\ n + 1 <= N
    BY <1>2
  <2>2. ~f[n + 1].ok /\ f[n + 1].symbols = symbols
    BY <2>1
  <2>3. f[n + 1] \in Lay
    BY <1>1, <2>1
  <2> HIDE DEF k
  <2>4. f[k] = Place(f[k - 1], job.items[k])
    BY <1>1, <2>1
  <2>5. f[k] = f[n + 1]
    BY <2>1, <2>2, <2>4 DEF Place
  <2> QED
    BY <2>2, <2>5 DEF k
<1> HIDE DEF S
<1>5. S = Nat
  BY <1>3, <1>4, SetInduction DEF S
<1>6. N - 1 \in Nat /\ N - 1 + 1 = N
  BY <1>2
<1> DEFINE k == N - 1
<1>7. k \in S /\ k + 1 <= N /\ k + 1 = N
  BY <1>2, <1>5, <1>6
<1> HIDE DEF k
<1>8. ~f[k + 1].ok /\ f[k + 1].symbols = symbols
  BY <1>7 DEF S
<1>9. ~f[N].ok /\ f[N].symbols = symbols
  BY <1>7, <1>8
<1> QED
  BY <1>1, <1>9

\* The body comes to be at the cave, and the patch at the instruction.
LEMMA PatchLaid ==
  ASSUME job.items \in Seq(Item), symbols \in Table,
         NEW p \in Proc, symbols["inject"] = Site[p], "inject" \in DOMAIN symbols,
         "newmem" \in DOMAIN symbols, NEW c \in Cave, symbols["newmem"] = c,
         NEW b, NEW off, IsBody(b, off), job.items = CodeOf(b)
  PROVE  /\ Laid.ok /\ Laid.placed = Plan(p, c, b, off)
         /\ \/ Laid.symbols = symbols /\ "return" \in DOMAIN symbols
            \/ Laid.symbols = With(symbols, "return", Site[p] + 2)
<1> DEFINE m == Len(b)
           N == Len(job.items)
           s == Site[p]
<1>1. PICK f : /\ f[0] = Begun /\ Laid = f[Len(job.items)]
               /\ \A n \in 1..Len(job.items) : f[n] = Place(f[n - 1], job.items[n])
               /\ \A n \in 0..Len(job.items) : f[n] \in Lay
  BY LaidSteps
<1>2. N = m + 5 /\ m \in Nat /\ m > 0 /\ c \in Nat \ {0} /\ s \in Nat \ {0}
  BY CodeIs, Places DEF IsBody
<1>3. \A i \in 1..m : b[i] \in BodyLine /\ off[i] \in Nat /\ off[i + 1] = off[i] + LineSize(b[i])
  BY Offsets DEF IsBody
<1>4. /\ job.items[1] = L("anchor", "newmem") /\ job.items[m + 2] = L("anchor", "inject")
      /\ job.items[m + 3] = L("jmp", "newmem") /\ job.items[m + 4] = L("nop", "")
      /\ job.items[m + 5] = L("anchor", "return")
      /\ \A i \in 1..m : job.items[i + 1] = b[i]
  BY CodeIs
<1>5. off[1] = 0
  BY DEF IsBody
<1>6. /\ L("anchor", "newmem").op = "anchor" /\ L("anchor", "newmem").name = "newmem"
      /\ L("anchor", "inject").op = "anchor" /\ L("anchor", "inject").name = "inject"
      /\ L("anchor", "return").op = "anchor" /\ L("anchor", "return").name = "return"
      /\ L("jmp", "newmem").op = "jmp" /\ L("nop", "").op = "nop"
  BY LIs
<1>7. \A n : n \in 1..N => f[n] = Place(f[n - 1], job.items[n])
  BY <1>1
<1>8. \A n : n \in 0..N => f[n] \in Lay
  BY <1>1
<1>9. f[0].ok /\ f[0].symbols = symbols /\ f[0].cursor = 0 /\ f[0].placed = <<>>
  BY <1>1 DEF Begun
<1>10. \A n : n \in 0..N => f[n].placed \in Seq(Placement)
  BY <1>8 DEF Lay
<1> DEFINE At(n) == /\ f[n + 1].ok /\ f[n + 1].symbols = symbols
                    /\ f[n + 1].cursor = c + off[n + 1] /\ Len(f[n + 1].placed) = n
                    /\ \A j \in 1..n : f[n + 1].placed[j] = [at |-> c + off[j], line |-> b[j]]
           S == {n \in Nat : n <= m => At(n)}
<1> HIDE DEF m, N, s
<1>11. 0 \in S
  <2>1. f[1] = Place(f[0], job.items[1]) /\ f[0] \in Lay
    <3>1. 1 \in 1..N /\ 1 - 1 = 0 /\ 0 \in 0..N
      BY <1>2
    <3> QED
      BY <1>7, <1>8, <3>1
  <2>2. job.items[1].op = "anchor" /\ job.items[1].name = "newmem"
    BY <1>4, <1>6
  <2>3. f[1].ok /\ f[1].symbols = symbols /\ f[1].cursor = c /\ f[1].placed = <<>>
    BY <1>9, <2>1, <2>2, PlaceKnown
  <2> QED
    BY <1>2, <1>5, <2>3
<1>12. ASSUME NEW n \in S PROVE n + 1 \in S
  <2> SUFFICES ASSUME n + 1 <= m PROVE At(n + 1)
    OBVIOUS
  <2> DEFINE k == n + 1
  <2>1. At(n) /\ k \in 1..m /\ k \in 0..N /\ k + 1 \in 1..N /\ k + 1 \in 0..N /\ k + 1 - 1 = k
    BY <1>2
  <2> HIDE DEF At
  <2>2. /\ f[k].ok /\ f[k].symbols = symbols /\ f[k].cursor = c + off[k]
        /\ Len(f[k].placed) = n
        /\ \A j \in 1..n : f[k].placed[j] = [at |-> c + off[j], line |-> b[j]]
    BY <2>1 DEF At
  <2>3. n \in Nat /\ \A j \in 1..k : j \in 1..n \/ j = k
    OBVIOUS
  <2>4. k = n + 1
    OBVIOUS
  <2> HIDE DEF k
  <2>5. f[k + 1] = Place(f[k], b[k]) /\ f[k] \in Lay
    <3> DEFINE q == k + 1
    <3>1. q \in 1..N /\ q - 1 = k
      BY <2>1
    <3>2. job.items[q] = b[k]
      BY <1>4, <2>1
    <3> HIDE DEF q
    <3>3. f[q] = Place(f[q - 1], job.items[q])
      BY <1>7, <3>1
    <3> QED
      BY <1>8, <2>1, <3>1, <3>2, <3>3 DEF q
  <2>6. b[k].op # "anchor"
    BY <1>3, <2>1 DEF BodyLine, Emission, Jumps
  <2>7. off[k] \in Nat /\ off[k + 1] = off[k] + LineSize(b[k]) /\ LineSize(b[k]) \in Nat
    BY <1>3, <2>1 DEF LineSize
  <2>8. f[k].cursor # 0 /\ f[k].cursor + LineSize(b[k]) = c + off[k + 1]
    BY <1>2, <2>2, <2>7
  <2>9. /\ f[k + 1].ok /\ f[k + 1].symbols = symbols /\ f[k + 1].cursor = c + off[k + 1]
        /\ f[k + 1].placed = Append(f[k].placed, [at |-> c + off[k], line |-> b[k]])
    BY <2>2, <2>5, <2>6, <2>8, PlaceCode
  <2> DEFINE old == f[k].placed
             new == f[k + 1].placed
             x == [at |-> c + off[k], line |-> b[k]]
  <2>10. old \in Seq(Placement) /\ Len(old) = n /\ new = Append(old, x)
    BY <1>10, <2>1, <2>2, <2>9
  <2>11. \A j \in 1..n : old[j] = [at |-> c + off[j], line |-> b[j]]
    BY <2>2
  <2> HIDE DEF old, new
  <2>12. Len(new) = k /\ new[k] = x /\ \A j \in 1..n : new[j] = old[j]
    <3> HIDE DEF x
    <3> QED
      BY <2>3, <2>4, <2>10
  <2>13. \A j \in 1..k : new[j] = [at |-> c + off[j], line |-> b[j]]
    BY <2>3, <2>11, <2>12
  <2>14. Len(f[k + 1].placed) = k /\ \A j \in 1..k : f[k + 1].placed[j] = [at |-> c + off[j], line |-> b[j]]
    BY <2>12, <2>13 DEF new
  <2>15. At(k)
    BY <2>9, <2>14 DEF At
  <2> QED
    BY <2>4, <2>15
<1> HIDE DEF S
<1>13. S = Nat
  BY <1>11, <1>12, SetInduction DEF S
<1>14. At(m)
  BY <1>2, <1>13 DEF S
<1> DEFINE a == m + 1
           d == m + 2
           e == m + 3
           g == m + 4
           h == m + 5
<1>15. /\ a \in 0..N /\ d \in 0..N /\ e \in 0..N /\ g \in 0..N
       /\ d \in 1..N /\ e \in 1..N /\ g \in 1..N /\ h \in 1..N /\ h \in 0..N
       /\ d - 1 = a /\ e - 1 = d /\ g - 1 = e /\ h - 1 = g
  BY <1>2
<1>16. f[a].ok /\ f[a].symbols = symbols /\ Len(f[a].placed) = m
       /\ \A j \in 1..m : f[a].placed[j] = [at |-> c + off[j], line |-> b[j]]
  BY <1>14 DEF At
<1>17. /\ job.items[d].op = "anchor" /\ job.items[d].name = "inject"
       /\ job.items[e] = L("jmp", "newmem") /\ job.items[g] = L("nop", "")
       /\ job.items[h].op = "anchor" /\ job.items[h].name = "return"
  BY <1>4, <1>6
<1>18. N = h
  BY <1>2
<1> HIDE DEF a, d, e, g, h
<1>19. f[d].ok /\ f[d].symbols = symbols /\ f[d].cursor = s /\ f[d].placed = f[a].placed
  <2> DEFINE l == f[a]
             i == job.items[d]
  <2>1. f[d] = Place(l, i) /\ l \in Lay
    BY <1>7, <1>8, <1>15
  <2>2. l.ok /\ l.symbols = symbols /\ i.op = "anchor" /\ i.name = "inject"
    BY <1>16, <1>17
  <2> HIDE DEF l, i
  <2>3. i.name \in DOMAIN l.symbols /\ l.symbols[i.name] = s
    BY <2>2 DEF s
  <2>4. /\ Place(l, i).ok /\ Place(l, i).symbols = l.symbols
        /\ Place(l, i).cursor = l.symbols[i.name] /\ Place(l, i).placed = l.placed
    BY <2>1, <2>2, <2>3, PlaceKnown
  <2> QED
    BY <2>1, <2>2, <2>3, <2>4 DEF l
<1>20. /\ f[e].ok /\ f[e].symbols = symbols /\ f[e].cursor = s + 1
       /\ f[e].placed = Append(f[d].placed, [at |-> s, line |-> L("jmp", "newmem")])
  <2> DEFINE l == f[d]
             i == L("jmp", "newmem")
  <2>1. f[e] = Place(l, i) /\ l \in Lay
    BY <1>7, <1>8, <1>15, <1>17
  <2>2. l.ok /\ l.symbols = symbols /\ i.op # "anchor" /\ l.cursor = s /\ LineSize(i) = 1
    BY <1>6, <1>19 DEF LineSize
  <2> HIDE DEF l, i
  <2>3. l.cursor # 0
    BY <1>2, <2>2
  <2>4. /\ Place(l, i).ok /\ Place(l, i).symbols = l.symbols
        /\ Place(l, i).cursor = l.cursor + LineSize(i)
        /\ Place(l, i).placed = Append(l.placed, [at |-> l.cursor, line |-> i])
    BY <2>1, <2>2, <2>3, PlaceCode
  <2> QED
    BY <2>1, <2>2, <2>4 DEF l, i
<1>21. /\ f[g].ok /\ f[g].symbols = symbols /\ f[g].cursor = s + 2
       /\ f[g].placed = Append(f[e].placed, [at |-> s + 1, line |-> L("nop", "")])
  <2> DEFINE l == f[e]
             i == L("nop", "")
  <2>1. f[g] = Place(l, i) /\ l \in Lay
    BY <1>7, <1>8, <1>15, <1>17
  <2>2. l.ok /\ l.symbols = symbols /\ i.op # "anchor" /\ l.cursor = s + 1 /\ LineSize(i) = 1
    BY <1>6, <1>20 DEF LineSize
  <2> HIDE DEF l, i
  <2>3. l.cursor # 0 /\ l.cursor + 1 = s + 2
    BY <1>2, <2>2
  <2>4. /\ Place(l, i).ok /\ Place(l, i).symbols = l.symbols
        /\ Place(l, i).cursor = l.cursor + LineSize(i)
        /\ Place(l, i).placed = Append(l.placed, [at |-> l.cursor, line |-> i])
    BY <2>1, <2>2, <2>3, PlaceCode
  <2> QED
    BY <2>1, <2>2, <2>3, <2>4 DEF l, i
<1>22. /\ f[h].ok /\ f[h].placed = f[g].placed
       /\ \/ f[h].symbols = symbols /\ "return" \in DOMAIN symbols
          \/ f[h].symbols = With(symbols, "return", s + 2)
  <2> DEFINE l == f[g]
             i == job.items[h]
  <2>1. f[h] = Place(l, i) /\ l \in Lay
    BY <1>7, <1>8, <1>15
  <2>2. l.ok /\ l.symbols = symbols /\ i.op = "anchor" /\ i.name = "return" /\ l.cursor = s + 2
    BY <1>17, <1>21
  <2> HIDE DEF l, i
  <2>3. l.cursor # 0
    BY <1>2, <2>2
  <2>4. ASSUME "return" \in DOMAIN symbols
        PROVE  Place(l, i).ok /\ Place(l, i).symbols = symbols /\ Place(l, i).placed = l.placed
    <3>1. i.name \in DOMAIN l.symbols
      BY <2>2, <2>4
    <3>2. Place(l, i).ok /\ Place(l, i).symbols = l.symbols /\ Place(l, i).placed = l.placed
      BY <2>1, <2>2, <3>1, PlaceKnown
    <3> QED
      BY <2>2, <3>2
  <2>5. ASSUME "return" \notin DOMAIN symbols
        PROVE  /\ Place(l, i).ok /\ Place(l, i).placed = l.placed
               /\ Place(l, i).symbols = With(symbols, "return", s + 2)
    <3>1. i.name \notin DOMAIN l.symbols
      BY <2>2, <2>5
    <3>2. /\ Place(l, i).ok /\ Place(l, i).placed = l.placed
          /\ Place(l, i).symbols = With(l.symbols, i.name, l.cursor)
      BY <2>1, <2>2, <2>3, <3>1, PlaceNew
    <3> QED
      BY <2>2, <3>2
  <2> QED
    BY <2>1, <2>4, <2>5 DEF l
<1>23. f[h].placed = Plan(p, c, b, off)
  <2> DEFINE u == f[a].placed
             v == f[e].placed
             w == f[g].placed
             x == [at |-> s, line |-> L("jmp", "newmem")]
             y == [at |-> s + 1, line |-> L("nop", "")]
  <2>1. u \in Seq(Placement) /\ v \in Seq(Placement) /\ w \in Seq(Placement)
    BY <1>10, <1>15
  <2>2. Len(u) = m /\ v = Append(u, x) /\ w = Append(v, y)
    BY <1>16, <1>19, <1>20, <1>21
  <2>3. \A j \in 1..m : u[j] = [at |-> c + off[j], line |-> b[j]]
    BY <1>16
  <2> HIDE DEF u, v, w, x, y
  <2>4. Len(v) = m + 1 /\ v[m + 1] = x /\ \A j \in 1..m : v[j] = u[j]
    BY <1>2, <2>1, <2>2
  <2>5. Len(w) = m + 2 /\ w[m + 2] = y /\ \A j \in 1..(m + 1) : w[j] = v[j]
    BY <1>2, <2>1, <2>2, <2>4
  <2>6. w = [j \in 1..(m + 2) |-> w[j]]
    BY <2>1, <2>5
  <2>7. ASSUME NEW j \in 1..(m + 2)
        PROVE  w[j] = IF j <= m THEN [at |-> c + off[j], line |-> b[j]]
                      ELSE IF j = m + 1 THEN x ELSE y
    <3>1. CASE j <= m
      <4>1. j \in 1..m /\ j \in 1..(m + 1)
        BY <1>2, <3>1
      <4> QED
        BY <2>3, <2>4, <2>5, <3>1, <4>1
    <3>2. CASE j = m + 1
      <4>1. m + 1 \in 1..(m + 1) /\ ~(m + 1 <= m)
        BY <1>2
      <4> QED
        BY <2>4, <2>5, <3>2, <4>1
    <3>3. CASE j = m + 2
      <4>1. ~(m + 2 <= m) /\ m + 2 # m + 1
        BY <1>2
      <4> QED
        BY <2>5, <3>3, <4>1
    <3>4. j <= m \/ j = m + 1 \/ j = m + 2
      BY <1>2
    <3> QED
      BY <3>1, <3>2, <3>3, <3>4
  <2>8. Plan(p, c, b, off) = [j \in 1..(m + 2) |->
                                IF j <= m THEN [at |-> c + off[j], line |-> b[j]]
                                ELSE IF j = m + 1 THEN x ELSE y]
    BY DEF Plan, m, x, y, s
  <2>9. w = Plan(p, c, b, off)
    BY <2>6, <2>7, <2>8
  <2> QED
    BY <1>22, <2>9 DEF w
<1>24. Laid = f[h]
  BY <1>1, <1>18 DEF N
<1> QED
  BY <1>22, <1>23, <1>24 DEF s


LEMMA RestoreLaid ==
  ASSUME job.items \in Seq(Item), symbols \in Table, job.items = Restore,
         NEW p \in Proc, "inject" \in DOMAIN symbols, symbols["inject"] = Site[p]
  PROVE  /\ Laid.ok /\ Laid.symbols = symbols
         /\ Laid.placed = <<[at |-> Site[p], line |-> L("db", "")]>>
<1>1. PICK f : /\ f[0] = Begun /\ Laid = f[Len(job.items)]
               /\ \A n \in 1..Len(job.items) : f[n] = Place(f[n - 1], job.items[n])
               /\ \A n \in 0..Len(job.items) : f[n] \in Lay
  BY LaidSteps
<1> DEFINE x == L("anchor", "inject")
           y == L("db", "")
           z == <<x, y>>
<1> HIDE DEF x, y
<1>2. Len(z) = 2 /\ z[1] = x /\ z[2] = y
  OBVIOUS
<1>3. job.items = z
  BY DEF Restore, x, y
<1> HIDE DEF z
<1>4. f[1] = Place(f[0], x) /\ f[2] = Place(f[1], y) /\ Laid = f[2] /\ f[0] \in Lay /\ f[1] \in Lay
  <2>1. 1 \in 1..2 /\ 2 \in 1..2 /\ 0 \in 0..2 /\ 1 \in 0..2 /\ 1 - 1 = 0 /\ 2 - 1 = 1
    OBVIOUS
  <2>2. /\ \A n \in 1..2 : f[n] = Place(f[n - 1], z[n])
        /\ \A n \in 0..2 : f[n] \in Lay
        /\ Laid = f[2]
    BY <1>1, <1>2, <1>3
  <2>3. f[1] = Place(f[1 - 1], z[1]) /\ f[2] = Place(f[2 - 1], z[2])
    BY <2>1, <2>2
  <2> QED
    BY <1>2, <2>1, <2>2, <2>3
<1>5. x.op = "anchor" /\ x.name = "inject" /\ y.op = "db"
  BY LIs DEF x, y
<1>6. f[0].ok /\ f[0].symbols = symbols /\ f[0].placed = <<>>
  BY <1>1 DEF Begun
<1>7. f[1].ok /\ f[1].symbols = symbols /\ f[1].placed = <<>> /\ f[1].cursor = Site[p]
  <2> DEFINE l == f[0]
  <2>1. x.name \in DOMAIN l.symbols /\ l.symbols[x.name] = Site[p] /\ l.ok /\ l \in Lay
    BY <1>4, <1>5, <1>6
  <2> HIDE DEF l
  <2>2. /\ Place(l, x).ok /\ Place(l, x).symbols = l.symbols
        /\ Place(l, x).cursor = l.symbols[x.name] /\ Place(l, x).placed = l.placed
    BY <1>5, <2>1, PlaceKnown
  <2> QED
    BY <1>4, <1>6, <2>1, <2>2 DEF l
<1>8. /\ f[2].ok /\ f[2].symbols = symbols
      /\ f[2].placed = Append(<<>>, [at |-> Site[p], line |-> y])
  <2> DEFINE l == f[1]
  <2>1. l.ok /\ l \in Lay /\ y.op # "anchor" /\ l.cursor # 0
    BY <1>4, <1>5, <1>7, Places
  <2> HIDE DEF l
  <2>2. /\ Place(l, y).ok /\ Place(l, y).symbols = l.symbols
        /\ Place(l, y).placed = Append(l.placed, [at |-> l.cursor, line |-> y])
    BY <2>1, PlaceCode
  <2> QED
    BY <1>4, <1>7, <2>2 DEF l
<1>9. \A e : Append(<<>>, e) = <<e>>
  OBVIOUS
<1> QED
  BY <1>4, <1>8, <1>9 DEF y

LEMMA AtLayout ==
  ASSUME PatchInv, job.pc = "commands", job.lines = <<>>
  PROVE  \/ /\ job.section = "enable" /\ job.deferred = <<>> /\ Ready
            /\ \E b, off : IsBody(b, off) /\ job.items = CodeOf(b)
         \/ /\ job.section = "disable" /\ job.deferred \in Seq(CleanLine)
            /\ job.items = Restore
<1>1. \/ job.section = "enable" /\ Enabling
      \/ job.section = "disable" /\ Disabling
  BY DEF PatchInv, JobInv
<1>2. ASSUME NEW S, NEW s \in Seq(S), NEW t \in Seq(S), s \o t = <<>> PROVE s = <<>> /\ t = <<>>
  <2>1. Len(s) + Len(t) = 0
    <3>1. Len(s \o t) = Len(s) + Len(t)
      BY ConcatIs
    <3> QED
      BY <1>2, <3>1
  <2> QED
    BY <2>1
<1>3. ASSUME job.section = "enable", Enabling
      PROVE  /\ job.deferred = <<>> /\ Ready
             /\ \E b, off : IsBody(b, off) /\ job.items = CodeOf(b)
  <2>1. PICK b, off : /\ IsBody(b, off)
                      /\ \/ Scanning(b) \/ Collecting(b)
                         \/ \E k \in 0..(Len(b) + 2) : Patching(b, off, k)
    BY <1>3 DEF Enabling
  <2>2. \A k : ~Patching(b, off, k)
    BY DEF Patching
  <2>3. CodeOf(b) \in Seq(CodeLine) /\ CodeOf(b) # <<>>
    <3>1. CodeOf(b) \in Seq(CodeLine) /\ Len(CodeOf(b)) = Len(b) + 5 /\ Len(b) \in Nat
      BY <2>1, CodeIs
    <3> QED
      BY <3>1
  <2>4. ~Scanning(b)
    <3> SUFFICES ASSUME Scanning(b) PROVE FALSE
      OBVIOUS
    <3>1. PICK r \in Seq(CommandLine) : job.lines = r \o CodeOf(b)
      BY DEF Scanning
    <3> DEFINE S == CommandLine \cup CodeLine
               C == CodeOf(b)
    <3>2. CommandLine \subseteq S /\ CodeLine \subseteq S
      OBVIOUS
    <3> HIDE DEF S, C
    <3>3. r \in Seq(S) /\ C \in Seq(S)
      BY <2>3, <3>2, Wider DEF C
    <3>4. r \o C = <<>>
      BY <3>1 DEF C
    <3>5. C = <<>>
      BY <1>2, <3>3, <3>4
    <3> QED
      BY <2>3, <3>5 DEF C
  <2>5. job.items \o job.lines = CodeOf(b) /\ Ready
    BY <2>1, <2>2, <2>4 DEF Collecting
  <2>6. job.items \o <<>> = job.items
    <3>1. job.items \in Seq(Item)
      BY JobParts DEF PatchInv, Typed
    <3> QED
      BY <3>1
  <2> QED
    BY <1>3, <2>1, <2>5, <2>6 DEF Enabling
<1>4. ASSUME job.section = "disable", Disabling
      PROVE  job.deferred \in Seq(CleanLine) /\ job.items = Restore
  <2> DEFINE x == L("anchor", "inject")
             y == L("db", "")
             S == CleanLine \cup {x, y}
  <2>1. CleanLine \subseteq S /\ x \in S /\ y \in S
    OBVIOUS
  <2> HIDE DEF x, y, S
  <2>2. <<x, y>> \in Seq(S) /\ <<x, y>> # <<>> /\ <<y>> \in Seq(S) /\ <<y>> # <<>>
    BY <2>1
  <2>3. ASSUME NEW clean \in Seq(CleanLine) PROVE <<x, y>> \o clean # <<>> /\ <<y>> \o clean # <<>>
    <3>1. clean \in Seq(S)
      BY <2>1, Wider
    <3> QED
      BY <1>2, <2>2, <3>1
  <2>4. Restoring /\ job.deferred \in Seq(CleanLine)
    BY <1>4 DEF Disabling, Undoing
  <2>5. \A clean \in Seq(CleanLine) : job.lines # Restore \o clean /\ job.lines # <<L("db", "")>> \o clean
    BY <2>3 DEF Restore, x, y
  <2> QED
    BY <2>4, <2>5 DEF Restoring
<1> QED
  BY <1>1, <1>3, <1>4

LEMMA LayoutPatch == PatchInv /\ OneTarget /\ Layout => PatchInv'
<1> SUFFICES ASSUME PatchInv, OneTarget, Layout PROVE PatchInv'
  OBVIOUS
<1> USE DEF PatchInv, Typed
<1>1. /\ job.pc = "commands" /\ job.lines = <<>> /\ symbols' = Laid.symbols
      /\ job' = IF Laid.ok THEN [job EXCEPT !.pc = "apply", !.items = <<>>, !.placed = Laid.placed]
                ELSE Idle
      /\ outcome' = IF Laid.ok THEN outcome ELSE RunFailed
      /\ UNCHANGED <<mem, owner, attached, script, allocs>>
  BY DEF Layout, user
<1>2. Typed'
  BY LayoutTyped
<1>3. PICK p \in Proc \ Blocked : p = attached
  BY <1>1, JobParts
<1>4. job.items \in Seq(Item) /\ symbols \in Table /\ SymbolsOK(p)
  BY <1>3, JobParts DEF ProcInv, StateOK
<1>5. Laid.symbols = symbols /\ ~Laid.ok => PatchInv'
  BY <1>1, <1>2, IdleStep, IdleTyped
<1>6. ASSUME Laid.ok
      PROVE  /\ job'.pc = "apply" /\ job'.section = job.section /\ job'.deferred = job.deferred
             /\ job'.placed = Laid.placed /\ job'.items = <<>> /\ outcome' = NoOutcome
  <2>1. outcome = NoOutcome
    BY <1>1 DEF JobInv
  <2> QED
    BY <1>1, <1>6, <2>1 DEF JobOK, JobType
<1>7. ASSUME SymbolsOK(p)' PROVE ProcInv'
  <2>1. \A q \in Proc : ModuleOK(q)' /\ (Intact(q)' \/ Hooked(q)')
    <3>1. \A q \in Proc : Spared(q)
      BY <1>1, SameSpares
    <3> QED
      BY <3>1, SparedKept DEF ProcInv
  <2>2. AllocsOK(p)'
    <3>1. AllocsOK(p)
      BY DEF ProcInv
    <3> QED
      BY <1>1, <3>1 DEF AllocsOK
  <2>3. \A q \in Proc \ Blocked : q = p
    BY DEF OneTarget
  <2> QED
    BY <1>7, <2>1, <2>2, <2>3 DEF ProcInv
<1>8. ASSUME job.section = "enable", job.deferred = <<>>, Ready,
             \E b, off : IsBody(b, off) /\ job.items = CodeOf(b)
      PROVE  PatchInv'
  <2>1. PICK b, off : IsBody(b, off) /\ job.items = CodeOf(b)
    BY <1>8
  <2>2. "inject" \in DOMAIN symbols /\ symbols["inject"] = Site[p]
    BY <1>4, <1>8 DEF Ready, SymbolsOK
  <2>3. ASSUME "newmem" \notin DOMAIN symbols PROVE PatchInv'
    <3>1. Len(job.items) > 0 /\ job.items[1] = L("anchor", "newmem")
      <4>1. /\ Len(CodeOf(b)) = Len(b) + 5 /\ Len(b) \in Nat
            /\ CodeOf(b)[1] = L("anchor", "newmem")
        BY <2>1, CodeIs
      <4> QED
        BY <2>1, <4>1
    <3>2. job.items[1].op = "anchor" /\ job.items[1].name = "newmem"
      BY <3>1, LIs
    <3>3. ~Laid.ok /\ Laid.symbols = symbols
      BY <1>4, <2>3, <3>1, <3>2, FailedStays
    <3> QED
      BY <1>5, <3>3
  <2>4. ASSUME "newmem" \in DOMAIN symbols PROVE PatchInv'
    <3>1. PICK c \in Cave : c = symbols["newmem"] /\ owner[p][c] = "assembler"
      BY <1>4, <2>4 DEF SymbolsOK
    <3>2. /\ Laid.ok /\ Laid.placed = Plan(p, c, b, off)
          /\ \/ Laid.symbols = symbols /\ "return" \in DOMAIN symbols
             \/ Laid.symbols = With(symbols, "return", Site[p] + 2)
      BY <1>4, <2>1, <2>2, <2>4, <3>1, PatchLaid
    <3>3. /\ "return" \in DOMAIN symbols'
          /\ DOMAIN symbols' = DOMAIN symbols \cup {"return"}
          /\ \A n \in DOMAIN symbols : n # "return" => symbols'[n] = symbols[n]
          /\ symbols'["return"] = Site[p] + 2
      <4>1. CASE symbols' = symbols /\ "return" \in DOMAIN symbols
        BY <1>4, <4>1 DEF SymbolsOK
      <4>2. CASE symbols' = With(symbols, "return", Site[p] + 2)
        BY <4>2 DEF With
      <4> QED
        BY <1>1, <3>2, <4>1, <4>2
    <3>4. SymbolsOK(p)'
      BY <1>1, <1>4, <3>3 DEF SymbolsOK
    <3>5. symbols'["newmem"] = c /\ {"newmem", "return"} \subseteq DOMAIN symbols'
      BY <2>4, <3>1, <3>3
    <3>6. Patching(b, off, 0)'
      <4> DEFINE s == Plan(p, c, b, off)
      <4>1. Len(b) \in Nat /\ Len(b) > 0
        BY <2>1, Offsets DEF IsBody
      <4>2. s = SubSeq(s, 1, Len(b) + 2)
        <5>1. s \in Seq(Placement) /\ Len(s) = Len(b) + 2
          <6>1. Laid.placed \in Seq(Placement)
            BY <1>4, LaidTyped DEF Lay
          <6>2. s \in Seq(Placement)
            BY <3>2, <6>1
          <6>3. Len(s) = Len(b) + 2
            BY <4>1 DEF Plan
          <6> QED
            BY <6>2, <6>3
        <5> HIDE DEF s
        <5> QED
          BY <5>1
      <4>3. attached' = p /\ job'.placed = s /\ Intact(p)' /\ job'.pc = "apply"
        BY <1>1, <1>3, <1>6, <1>8, <3>2 DEF Ready, Intact
      <4>4. Intact(attached)'
        BY <4>3 DEF Intact
      <4>5. \A q, d : Holds(q, d, b, off, 0)'
        BY <4>1 DEF Holds
      <4>6. 0 + 1 = 1 /\ ~(0 > Len(b))
        BY <4>1
      <4>7. job'.placed = SubSeq(Plan(attached', c, b, off), 0 + 1, Len(b) + 2)
        BY <4>2, <4>3, <4>6
      <4> HIDE DEF s
      <4> QED
        BY <3>5, <4>3, <4>4, <4>5, <4>6, <4>7 DEF Patching, Plan, Intact
    <3>7. IsBody(b, off)' /\ 0 \in 0..(Len(b) + 2)
      BY <2>1, Offsets DEF IsBody
    <3>8. JobInv'
      BY <1>6, <1>8, <3>2, <3>6, <3>7 DEF JobInv, Enabling
    <3>9. OutcomeInv'
      BY <1>6, <3>2, Outcomes DEF OutcomeInv
    <3> QED
      BY <1>2, <1>7, <3>4, <3>8, <3>9
  <2> QED
    BY <2>3, <2>4
<1>9. ASSUME job.section = "disable", job.deferred \in Seq(CleanLine), job.items = Restore
      PROVE  PatchInv'
  <2>1. ASSUME "inject" \notin DOMAIN symbols PROVE PatchInv'
    <3>1. Len(job.items) > 0 /\ job.items[1] = L("anchor", "inject")
      <4> DEFINE x == L("anchor", "inject")
                 y == L("db", "")
      <4>1. job.items = <<x, y>>
        BY <1>9 DEF Restore
      <4> HIDE DEF x, y
      <4> QED
        BY <4>1 DEF x
    <3>2. job.items[1].op = "anchor" /\ job.items[1].name = "inject"
      BY <3>1, LIs
    <3>3. ~Laid.ok /\ Laid.symbols = symbols
      BY <1>4, <2>1, <3>1, <3>2, FailedStays
    <3> QED
      BY <1>5, <3>3
  <2>2. ASSUME "inject" \in DOMAIN symbols PROVE PatchInv'
    <3>1. symbols["inject"] = Site[p]
      BY <1>4, <2>2 DEF SymbolsOK
    <3>2. /\ Laid.ok /\ Laid.symbols = symbols
          /\ Laid.placed = <<[at |-> Site[p], line |-> L("db", "")]>>
      BY <1>4, <1>9, <2>2, <3>1, RestoreLaid
    <3>3. SymbolsOK(p)'
      BY <1>1, <1>4, <3>2 DEF SymbolsOK
    <3>4. Undoing'
      BY <1>1, <1>3, <1>6, <3>2 DEF Undoing
    <3>5. JobInv'
      BY <1>6, <1>9, <3>2, <3>4 DEF JobInv, Disabling
    <3>6. OutcomeInv'
      BY <1>6, <3>2, Outcomes DEF OutcomeInv
    <3> QED
      BY <1>2, <1>7, <3>3, <3>5, <3>6
  <2> QED
    BY <2>1, <2>2
<1> QED
  BY <1>1, <1>8, <1>9, AtLayout


-----------------------------------------------------------------------------
(* The writes.                                                             *)

LEMMA Rest ==
  ASSUME NEW S, NEW s \in Seq(S), NEW k \in Nat, k < Len(s)
  PROVE  LET u == SubSeq(s, k + 1, Len(s))
         IN u # <<>> /\ Head(u) = s[k + 1] /\ Tail(u) = SubSeq(s, k + 2, Len(s))
<1> DEFINE n == Len(s)
           u == SubSeq(s, k + 1, n)
           v == Tail(u)
           w == SubSeq(s, k + 2, n)
<1>1. n \in Nat /\ k + 1 \in 1..n
  OBVIOUS
<1>2. u \in Seq(S) /\ Len(u) = n - k /\ \A i \in 1..(n - k) : u[i] = s[k + i]
  BY <1>1
<1>3. w \in Seq(S) /\ Len(w) = n - (k + 1) /\ \A i \in 1..(n - (k + 1)) : w[i] = s[k + 1 + i]
  <2>1. k + 2 \in 1..n \/ k + 2 = n + 1
    BY <1>1
  <2>2. CASE k + 2 \in 1..n
    BY <1>1, <2>2
  <2>3. CASE k + 2 = n + 1
    <3>1. w = <<>> /\ n - (k + 1) = 0
      BY <1>1, <2>3
    <3> QED
      BY <3>1
  <2> QED
    BY <2>1, <2>2, <2>3
<1> HIDE DEF n, u, w
<1>4. u # <<>> /\ Head(u) = u[1] /\ 1 \in 1..(n - k)
  BY <1>1, <1>2
<1>5. v \in Seq(S) /\ Len(v) = n - (k + 1) /\ \A i \in 1..(n - (k + 1)) : v[i] = u[i + 1]
  BY <1>1, <1>2, <1>4
<1> HIDE DEF v
<1>6. ASSUME NEW i \in 1..(n - (k + 1)) PROVE v[i] = w[i]
  <2> DEFINE j == i + 1
  <2>1. j \in 1..(n - k) /\ k + j = k + 1 + i
    BY <1>1
  <2> HIDE DEF j
  <2>2. u[j] = s[k + j]
    BY <1>2, <2>1
  <2>3. v[i] = u[j]
    BY <1>5 DEF j
  <2> QED
    BY <1>3, <2>1, <2>2, <2>3
<1>7. v = w
  BY <1>3, <1>5, <1>6, SeqEq
<1> QED
  BY <1>2, <1>4, <1>7 DEF n, u, v, w

\* What is written next, and what is left.
LEMMA PlanIs ==
  ASSUME NEW p, NEW c, NEW b, NEW off, IsBody(b, off), NEW k \in 0..(Len(b) + 2)
  PROVE  LET s == Plan(p, c, b, off)
             u == SubSeq(s, k + 1, Len(b) + 2)
         IN /\ u # <<>> <=> k < Len(b) + 2
            /\ k < Len(b) + 2 =>
                 Head(u) = s[k + 1] /\ Tail(u) = SubSeq(s, k + 2, Len(b) + 2)
<1> DEFINE m == Len(b)
           s == Plan(p, c, b, off)
           S == {s[i] : i \in 1..(m + 2)}
           u == SubSeq(s, k + 1, m + 2)
<1>1. m \in Nat
  BY Offsets
<1>2. s = [i \in 1..(m + 2) |-> s[i]]
  BY DEF Plan
<1> HIDE DEF m, s
<1>3. s \in Seq(S) /\ Len(s) = m + 2
  <2>1. \A i \in 1..(m + 2) : s[i] \in S
    OBVIOUS
  <2> HIDE DEF S
  <2> DEFINE f == [i \in 1..(m + 2) |-> s[i]]
  <2>2. m + 2 \in Nat
    BY <1>1
  <2>3. f \in Seq(S) /\ Len(f) = m + 2
    BY <2>1, <2>2
  <2> QED
    BY <1>2, <2>3
<1> HIDE DEF S
<1>4. k \in Nat /\ k <= m + 2
  BY <1>1 DEF m
<1>5. CASE k < m + 2
  <2>1. u # <<>> /\ Head(u) = s[k + 1] /\ Tail(u) = SubSeq(s, k + 2, m + 2)
    BY <1>3, <1>4, <1>5, Rest
  <2> QED
    BY <1>5, <2>1 DEF m, s
<1>6. CASE ~(k < m + 2)
  <2>1. k + 1 > m + 2
    BY <1>1, <1>4, <1>6
  <2>2. u = <<>>
    BY <1>1, <1>3, <1>4, <2>1
  <2> QED
    BY <1>6, <2>2 DEF m, s
<1> QED
  BY <1>5, <1>6

\* What a run that applies is at.
LEMMA AtApply ==
  ASSUME PatchInv, job.pc = "apply"
  PROVE  \/ /\ job.section = "enable" /\ job.deferred = <<>>
            /\ \E b, off : /\ IsBody(b, off)
                           /\ \E k \in 0..(Len(b) + 2) : Patching(b, off, k)
         \/ job.section = "disable" /\ job.deferred \in Seq(CleanLine) /\ Undoing
<1>1. \/ job.section = "enable" /\ Enabling
      \/ job.section = "disable" /\ Disabling
  BY DEF PatchInv, JobInv
<1>2. \A b : ~Scanning(b) /\ ~Collecting(b)
  BY DEF Scanning, Collecting
<1>3. Disabling => Undoing /\ job.deferred \in Seq(CleanLine)
  BY DEF Disabling, Restoring
<1>4. Enabling => /\ job.deferred = <<>>
                  /\ \E b, off : /\ IsBody(b, off)
                                 /\ \E k \in 0..(Len(b) + 2) : Patching(b, off, k)
  BY <1>2 DEF Enabling
<1> QED
  BY <1>1, <1>3, <1>4

\* The processes after a write, given that its process is all right.
LEMMA WriteProcs ==
  ASSUME PatchInv, Write, NEW p \in Proc \ Blocked, p = attached,
         ModuleOK(p)', Intact(p)' \/ Hooked(p)'
  PROVE  ProcInv'
<1>1. UNCHANGED <<owner, symbols, allocs>>
  BY DEF Write, asm
<1>2. ASSUME NEW q \in Proc PROVE ModuleOK(q)' /\ (Intact(q)' \/ Hooked(q)')
  <2>1. CASE q = p
    BY <2>1
  <2>2. CASE q # p
    <3>1. Spared(q)
      BY <2>2, WriteSpares DEF PatchInv, Typed
    <3> QED
      BY <3>1, SparedKept DEF PatchInv, ProcInv
  <2> QED
    BY <2>1, <2>2
<1>3. ASSUME NEW q \in Proc \ Blocked PROVE SymbolsOK(q)' /\ AllocsOK(q)'
  <2>1. SymbolsOK(q) /\ AllocsOK(q)
    BY DEF PatchInv, ProcInv
  <2> QED
    BY <1>1, <2>1 DEF SymbolsOK, AllocsOK
<1> QED
  BY <1>2, <1>3 DEF ProcInv

\* A line of the body is written: the game does not come there yet.
LEMMA WriteBody ==
  ASSUME PatchInv, Write, NEW p \in Proc \ Blocked, p = attached,
         NEW b, NEW off, IsBody(b, off), NEW k \in Nat, k < Len(b),
         NEW c \in Cave, NextPlaced = [at |-> c + off[k + 1], line |-> b[k + 1]],
         Intact(p), Holds(p, c, b, off, k), SymbolsOK(p), "return" \in DOMAIN symbols
  PROVE  ModuleOK(p)' /\ Intact(p)' /\ Holds(p, c, b, off, k + 1)'
<1> DEFINE i == k + 1
           x == c + off[i]
<1>1. i \in 1..Len(b) /\ Len(b) \in Nat
  BY Offsets
<1>2. \A a \in Addr : mem'[p][a] = IF a \in Span THEN CellWritten(a) ELSE mem[p][a]
  BY WriteIs DEF PatchInv, Typed
<1>3. /\ NextPlaced.at = x /\ NextPlaced.line = b[i] /\ b[i].op \in Emission
      /\ b[i].op \in Jumps => b[i].name = "return"
  BY <1>1, Offsets DEF BodyLine
<1>4. Span = x..(x + LineSize(b[i]) - 1)
  BY <1>3 DEF Span
<1>5. /\ \A a \in Span : a \in Cells(c)
      /\ x \in Addr /\ x \in Nat
      /\ b[i].op = "db" => x + 1 \in Addr
  BY <1>1, <1>4, InCave
<1>6. \A a \in Module : a \notin Span /\ a \in Addr
  BY <1>5, Places
<1>7. \A a \in Module : mem'[p][a] = mem[p][a]
  BY <1>2, <1>6
<1>8. ModuleOK(p)'
  BY <1>7 DEF PatchInv, ProcInv, ModuleOK
<1>9. Intact(p)'
  BY <1>7, Places DEF Intact
<1> HIDE DEF x, i
<1>10. Shows(p, x, b[i])'
  <2>1. LineSize(b[i]) \in 1..2 /\ (b[i].op = "db" => LineSize(b[i]) = 2)
    BY DEF LineSize
  <2>2. x \in Span /\ (b[i].op = "db" => x + 1 \in Span)
    BY <1>4, <1>5, <2>1
  <2>3. mem'[p][x] = CellWritten(x)
    BY <1>2, <1>5, <2>2
  <2>4. CASE b[i].op = "db"
    <3>1. mem'[p][x + 1] = CellWritten(x + 1)
      BY <1>2, <1>5, <2>2, <2>4
    <3>2. \A a : CellWritten(a) = Cell(IF a = x THEN "o1" ELSE "o2")
      BY <1>3, <2>4 DEF CellWritten, Jumps
    <3>3. x + 1 # x
      BY <1>5
    <3>4. mem'[p][x].op = "o1" /\ mem'[p][x + 1].op = "o2"
      BY <2>3, <3>1, <3>2, <3>3 DEF Cell
    <3> QED
      BY <2>4, <3>4 DEF Shows
  <2>5. CASE b[i].op = "nop"
    <3>1. CellWritten(x) = Cell("nop")
      BY <1>3, <2>5 DEF CellWritten, Jumps
    <3> QED
      BY <2>3, <2>5, <3>1 DEF Cell, Shows
  <2>6. CASE b[i].op \in Jumps
    <3>1. CellWritten(x) = [op |-> b[i].op, to |-> symbols["return"]]
      BY <1>3, <2>6 DEF CellWritten, Jumps
    <3>2. symbols["return"] = Site[p] + 2
      BY DEF SymbolsOK
    <3> QED
      BY <2>3, <2>6, <3>1, <3>2 DEF Shows
  <2> QED
    BY <1>3, <2>4, <2>5, <2>6 DEF Emission
<1>11. ASSUME NEW j \in 1..Len(b), j <= k PROVE Shows(p, c + off[j], b[j])'
  <2>1. Shows(p, c + off[j], b[j])
    BY <1>11 DEF Holds
  <2>2. j < i /\ j \in 1..(Len(b) + 1) /\ i \in 1..(Len(b) + 1)
    BY <1>1, <1>11 DEF i
  <2>3. off[j] + LineSize(b[j]) <= off[i] /\ off[j] \in Nat /\ off[i] \in Nat
    BY <1>1, <2>2, Offsets
  <2>4. LineSize(b[j]) \in 1..2 /\ (b[j].op = "db" => LineSize(b[j]) = 2)
    BY DEF LineSize
  <2> DEFINE y == c + off[j]
  <2>5. /\ y \in Addr /\ y \in Nat
        /\ b[j].op = "db" => y + 1 \in Addr
    BY InCave
  <2>6. c \in Nat /\ x = c + off[i]
    BY Places DEF x
  <2>7. y < x /\ (b[j].op = "db" => y + 1 < x)
    BY <2>3, <2>4, <2>6
  <2> HIDE DEF y
  <2>8. y \notin Span /\ (b[j].op = "db" => y + 1 \notin Span)
    BY <1>4, <1>5, <2>5, <2>7
  <2>9. mem'[p][y] = mem[p][y] /\ (b[j].op = "db" => mem'[p][y + 1] = mem[p][y + 1])
    BY <1>2, <2>5, <2>8
  <2> QED
    BY <2>1, <2>9 DEF Shows, y
<1>12. \A j \in 1..Len(b) : j <= k + 1 => j <= k \/ j = i
  BY <1>1 DEF i
<1>13. Holds(p, c, b, off, k + 1)'
  BY <1>10, <1>11, <1>12 DEF Holds, x
<1> QED
  BY <1>8, <1>9, <1>13

LEMMA OneCell == ASSUME NEW a \in Nat PROVE a..(a + 1 - 1) = {a}
OBVIOUS

LEMMA TwoCells ==
  ASSUME NEW a \in Nat
  PROVE  \A d : d \in a..(a + 2 - 1) <=> d \in {a, a + 1}
OBVIOUS

\* A write in the module changes only one of the instruction's cells.
LEMMA WriteSite ==
  ASSUME PatchInv, Write, NEW p \in Proc \ Blocked, p = attached, Span = {NextPlaced.at},
         NextPlaced.at \in {Site[p], Site[p] + 1}
  PROVE  /\ ModuleOK(p)' /\ mem'[p][NextPlaced.at] = CellWritten(NextPlaced.at)
         /\ \A a \in Addr : a # NextPlaced.at => mem'[p][a] = mem[p][a]
         /\ \A c \in Cave : \A a \in Cells(c) : mem'[p][a] = mem[p][a]
<1>1. \A a \in Addr : mem'[p][a] = IF a \in Span THEN CellWritten(a) ELSE mem[p][a]
  BY WriteIs DEF PatchInv, Typed
<1>2. NextPlaced.at \in Addr /\ NextPlaced.at \in Module
  BY Places
<1>3. \A a \in Module : a \notin {Site[p], Site[p] + 1} => mem'[p][a] = mem[p][a]
  BY <1>1, Places
<1>4. ModuleOK(p)'
  BY <1>3 DEF PatchInv, ProcInv, ModuleOK
<1>5. \A c \in Cave : \A a \in Cells(c) : a \in Addr /\ a \notin Span
  BY <1>2, Places
<1> QED
  BY <1>1, <1>2, <1>4, <1>5

\* The jump to the cave.
LEMMA WriteJump ==
  ASSUME PatchInv, Write, NEW p \in Proc \ Blocked, p = attached,
         NEW b, NEW off, IsBody(b, off), NEW c \in Cave, symbols["newmem"] = c,
         NextPlaced = [at |-> Site[p], line |-> L("jmp", "newmem")],
         Intact(p), Holds(p, c, b, off, Len(b))
  PROVE  ModuleOK(p)' /\ HookedTo(p, c, b, off)'
<1>1. NextPlaced.at = Site[p] /\ NextPlaced.line.op = "jmp" /\ NextPlaced.line.name = "newmem"
  BY LIs
<1>2. Span = {NextPlaced.at}
  <2>1. LineSize(NextPlaced.line) = 1 /\ NextPlaced.at \in Nat
    BY <1>1, Places DEF LineSize
  <2> QED
    BY <2>1, OneCell DEF Span
<1>3. /\ ModuleOK(p)' /\ mem'[p][Site[p]] = CellWritten(Site[p])
      /\ mem'[p][Site[p] + 1] = mem[p][Site[p] + 1]
      /\ \A a \in Cells(c) : mem'[p][a] = mem[p][a]
  BY <1>1, <1>2, WriteSite, Places
<1>4. CellWritten(Site[p]) = [op |-> "jmp", to |-> c]
  BY <1>1 DEF CellWritten, Jumps
<1>5. Holds(p, c, b, off, Len(b))'
  BY <1>3, ShowsKept
<1>6. mem'[p][Site[p] + 1].op = "o2"
  BY <1>3 DEF Intact
<1> QED
  BY <1>3, <1>4, <1>5, <1>6 DEF HookedTo

\* The nop behind the jump.
LEMMA WriteNop ==
  ASSUME PatchInv, Write, NEW p \in Proc \ Blocked, p = attached,
         NEW b, NEW off, IsBody(b, off), NEW c \in Cave,
         NextPlaced = [at |-> Site[p] + 1, line |-> L("nop", "")],
         HookedTo(p, c, b, off)
  PROVE  ModuleOK(p)' /\ HookedTo(p, c, b, off)'
<1>1. NextPlaced.at = Site[p] + 1 /\ NextPlaced.line.op = "nop"
  BY LIs
<1>2. Span = {NextPlaced.at}
  <2>1. LineSize(NextPlaced.line) = 1 /\ NextPlaced.at \in Nat
    BY <1>1, Places DEF LineSize
  <2> QED
    BY <2>1, OneCell DEF Span
<1>3. /\ ModuleOK(p)' /\ mem'[p][Site[p] + 1] = CellWritten(Site[p] + 1)
      /\ mem'[p][Site[p]] = mem[p][Site[p]]
      /\ \A a \in Cells(c) : mem'[p][a] = mem[p][a]
  <2>1. NextPlaced.at \in {Site[p], Site[p] + 1}
    BY <1>1
  <2>2. /\ ModuleOK(p)' /\ mem'[p][NextPlaced.at] = CellWritten(NextPlaced.at)
        /\ \A a \in Addr : a # NextPlaced.at => mem'[p][a] = mem[p][a]
        /\ \A a \in Cells(c) : mem'[p][a] = mem[p][a]
    BY <1>2, <2>1, WriteSite
  <2>3. Site[p] \in Addr /\ Site[p] # NextPlaced.at
    BY <1>1, Places
  <2> QED
    BY <1>1, <2>2, <2>3
<1>4. CellWritten(Site[p] + 1) = Cell("nop")
  BY <1>1 DEF CellWritten, Jumps
<1>5. Holds(p, c, b, off, Len(b))'
  BY <1>3, ShowsKept DEF HookedTo
<1>6. mem[p][Site[p]].op = "jmp" /\ mem[p][Site[p]].to = c
  BY DEF HookedTo
<1>7. mem'[p][Site[p] + 1].op = "nop" /\ mem'[p][Site[p]].op = "jmp" /\ mem'[p][Site[p]].to = c
  <2>1. Cell("nop").op = "nop"
    BY DEF Cell
  <2> QED
    BY <1>3, <1>4, <1>6, <2>1
<1> QED
  BY <1>3, <1>5, <1>7 DEF HookedTo

\* The original bytes.
LEMMA WriteBack ==
  ASSUME PatchInv, Write, NEW p \in Proc \ Blocked, p = attached,
         NextPlaced = [at |-> Site[p], line |-> L("db", "")]
  PROVE  ModuleOK(p)' /\ Intact(p)'
<1>1. NextPlaced.at = Site[p] /\ NextPlaced.line.op = "db" /\ Site[p] \in Nat
  BY LIs, Places
<1>2. LineSize(NextPlaced.line) = 2
  BY <1>1 DEF LineSize
<1>3. \A a : a \in Span <=> a \in {Site[p], Site[p] + 1}
  BY <1>1, <1>2, TwoCells DEF Span
<1>4. \A a \in Addr : mem'[p][a] = IF a \in Span THEN CellWritten(a) ELSE mem[p][a]
  BY WriteIs DEF PatchInv, Typed
<1>5. \A a : CellWritten(a) = Cell(IF a = Site[p] THEN "o1" ELSE "o2")
  BY <1>1 DEF CellWritten, Jumps
<1>6. Site[p] \in Addr /\ Site[p] + 1 \in Addr /\ Site[p] + 1 # Site[p]
  BY Places
<1>7. mem'[p][Site[p]] = Cell("o1") /\ mem'[p][Site[p] + 1] = Cell("o2")
  BY <1>3, <1>4, <1>5, <1>6
<1>8. \A a \in Module : a \notin {Site[p], Site[p] + 1} => mem'[p][a] = mem[p][a]
  BY <1>3, <1>4, Places
<1>9. ModuleOK(p)'
  BY <1>8 DEF PatchInv, ProcInv, ModuleOK
<1>10. Cell("o1").op = "o1" /\ Cell("o2").op = "o2"
  BY DEF Cell
<1>11. mem'[p][Site[p]].op = "o1" /\ mem'[p][Site[p] + 1].op = "o2"
  BY <1>7, <1>10
<1>12. Intact(p)'
  BY <1>11 DEF Intact
<1> QED
  BY <1>9, <1>12


LEMMA WritePatch == PatchInv /\ OneTarget /\ Write => PatchInv'
<1> SUFFICES ASSUME PatchInv, OneTarget, Write PROVE PatchInv'
  OBVIOUS
<1>1. /\ job.pc = "apply" /\ job.placed # <<>> /\ job' = [job EXCEPT !.placed = Tail(@)]
      /\ NextPlaced = Head(job.placed)
      /\ UNCHANGED <<owner, attached, symbols, allocs, outcome>>
  BY DEF Write, Writing, NextPlaced, user, asm
<1>2. JobOK /\ Typed'
  BY WriteTyped DEF PatchInv, Typed
<1>3. PICK p \in Proc \ Blocked : p = attached
  BY <1>1, <1>2, JobParts
<1>4. SymbolsOK(p) /\ ProcInv
  BY DEF PatchInv, ProcInv
<1>5. /\ job'.pc = "apply" /\ job'.section = job.section /\ job'.deferred = job.deferred
      /\ job'.placed = Tail(job.placed) /\ outcome' = NoOutcome
  <2>1. outcome = NoOutcome
    BY <1>1 DEF PatchInv, JobInv
  <2> QED
    BY <1>1, <1>2, <2>1 DEF JobOK, JobType
<1>6. ASSUME ModuleOK(p)', Intact(p)' \/ Hooked(p)', JobInv' PROVE PatchInv'
  <2>1. ProcInv'
    BY <1>3, <1>6, WriteProcs
  <2>2. OutcomeInv'
    BY <1>5, Outcomes DEF OutcomeInv
  <2> QED
    BY <1>2, <1>6, <2>1, <2>2 DEF PatchInv
<1>7. ASSUME job.section = "enable", job.deferred = <<>>,
             NEW b, NEW off, IsBody(b, off), NEW k \in 0..(Len(b) + 2), Patching(b, off, k)
      PROVE  PatchInv'
  <2>1. PICK c \in Cave : c = symbols["newmem"] /\ owner[p][c] = "assembler"
    BY <1>4, <1>7 DEF Patching, SymbolsOK
  <2> DEFINE m == Len(b)
             s == Plan(p, c, b, off)
  <2>2. /\ {"newmem", "return"} \subseteq DOMAIN symbols
        /\ job.placed = SubSeq(s, k + 1, m + 2) /\ Holds(p, c, b, off, k)
        /\ k <= m => Intact(p)
        /\ k > m => HookedTo(p, c, b, off)
    BY <1>3, <1>7, <2>1 DEF Patching, Plan, Holds, Shows, HookedTo, Intact
  <2>3. m \in Nat /\ k \in Nat /\ m > 0
    BY <1>7, Offsets DEF IsBody
  <2>4. k < m + 2 /\ NextPlaced = s[k + 1] /\ job'.placed = SubSeq(s, k + 2, m + 2)
    <3> DEFINE u == SubSeq(s, k + 1, m + 2)
    <3>1. /\ u # <<>> <=> k < m + 2
          /\ k < m + 2 => Head(u) = s[k + 1] /\ Tail(u) = SubSeq(s, k + 2, m + 2)
      BY <1>7, PlanIs
    <3>2. job.placed = u
      BY <2>2
    <3> HIDE DEF u, s, m
    <3> QED
      BY <1>1, <1>5, <3>1, <3>2
  <2> DEFINE i == k + 1
  <2>5. i \in 1..(m + 2) /\ i \in Nat /\ i \in 0..(m + 2) /\ k + 2 = i + 1
    BY <2>3, <2>4
  <2>6. s[i] = IF i <= m THEN [at |-> c + off[i], line |-> b[i]]
               ELSE IF i = m + 1 THEN [at |-> Site[p], line |-> L("jmp", "newmem")]
               ELSE [at |-> Site[p] + 1, line |-> L("nop", "")]
    BY <2>5 DEF Plan
  <2> HIDE DEF s
  <2>7. ASSUME Holds(p, c, b, off, i)', i <= m => Intact(p)', i > m => HookedTo(p, c, b, off)'
        PROVE  JobInv'
    <3>1. symbols' = symbols /\ attached' = p
      BY <1>1, <1>3
    <3>2. /\ {"newmem", "return"} \subseteq DOMAIN symbols'
          /\ job'.placed = SubSeq(s, i + 1, m + 2)
      BY <2>2, <2>4, <2>5, <3>1
    <3>3. Patching(b, off, i)'
      BY <1>5, <2>1, <2>7, <3>1, <3>2 DEF Patching, Plan, Holds, Shows, HookedTo, Intact, s
    <3>4. IsBody(b, off)'
      BY <1>7 DEF IsBody
    <3> QED
      BY <1>5, <1>7, <2>5, <3>3, <3>4 DEF JobInv, Enabling
  <2>8. CASE k < m
    <3>1. k <= m /\ i <= m /\ ~(i > m)
      BY <2>3, <2>8
    <3>2. NextPlaced = [at |-> c + off[k + 1], line |-> b[k + 1]]
      BY <2>4, <2>6, <3>1
    <3>3. ModuleOK(p)' /\ Intact(p)' /\ Holds(p, c, b, off, k + 1)'
      BY <1>3, <1>4, <1>7, <2>2, <2>3, <2>8, <3>1, <3>2, WriteBody
    <3> QED
      BY <1>6, <2>7, <3>1, <3>3
  <2>9. CASE k = m
    <3>1. k <= m /\ ~(i <= m) /\ i = m + 1 /\ i > m
      BY <2>3, <2>9
    <3>2. NextPlaced = [at |-> Site[p], line |-> L("jmp", "newmem")]
      BY <2>4, <2>6, <3>1
    <3>3. Holds(p, c, b, off, Len(b))
      BY <2>2, <2>9
    <3>4. ModuleOK(p)' /\ HookedTo(p, c, b, off)'
      BY <1>3, <1>7, <2>1, <2>2, <3>1, <3>2, <3>3, WriteJump
    <3> HIDE DEF i
    <3>5. Hooked(p)' /\ Holds(p, c, b, off, i)'
      <4>1. IsBody(b, off)' /\ owner'[p][c] = "assembler"
        BY <1>1, <1>7, <2>1 DEF IsBody
      <4>2. Holds(p, c, b, off, Len(b))'
        BY <3>4 DEF HookedTo
      <4>3. Holds(p, c, b, off, i)'
        BY <2>3, <2>5, <3>1, <4>2, HoldsAll
      <4>4. Hooked(p)'
        BY <3>4, <4>1 DEF Hooked
      <4> QED
        BY <4>3, <4>4
    <3> QED
      BY <1>6, <2>7, <3>1, <3>4, <3>5
  <2>10. CASE k = m + 1
    <3>1. k > m /\ ~(i <= m) /\ i # m + 1 /\ i > m
      BY <2>3, <2>10
    <3>2. NextPlaced = [at |-> Site[p] + 1, line |-> L("nop", "")]
      BY <2>4, <2>6, <3>1
    <3>3. ModuleOK(p)' /\ HookedTo(p, c, b, off)'
      BY <1>3, <1>7, <2>2, <3>1, <3>2, WriteNop
    <3> HIDE DEF i
    <3>4. Hooked(p)' /\ Holds(p, c, b, off, i)'
      <4>1. IsBody(b, off)' /\ owner'[p][c] = "assembler"
        BY <1>1, <1>7, <2>1 DEF IsBody
      <4>2. Holds(p, c, b, off, Len(b))'
        BY <3>3 DEF HookedTo
      <4>3. Holds(p, c, b, off, i)'
        BY <2>3, <2>5, <3>1, <4>2, HoldsAll
      <4>4. Hooked(p)'
        BY <3>3, <4>1 DEF Hooked
      <4> QED
        BY <4>3, <4>4
    <3> QED
      BY <1>6, <2>7, <3>1, <3>3, <3>4
  <2>11. k < m \/ k = m \/ k = m + 1
    BY <2>3, <2>4
  <2> QED
    BY <2>8, <2>9, <2>10, <2>11
<1>8. ASSUME job.section = "disable", job.deferred \in Seq(CleanLine), Undoing
      PROVE  PatchInv'
  <2> DEFINE x == [at |-> Site[p], line |-> L("db", "")]
  <2>1. job.placed = <<x>>
    BY <1>1, <1>3, <1>8 DEF Undoing
  <2> HIDE DEF x
  <2>2. NextPlaced = x /\ job'.placed = <<>>
    BY <1>1, <1>5, <2>1
  <2>3. ModuleOK(p)' /\ Intact(p)'
    BY <1>3, <2>2, WriteBack DEF x
  <2>4. Undoing'
    <3>1. Intact(attached)'
      BY <1>1, <1>3, <2>3 DEF Intact
    <3> QED
      BY <1>5, <2>2, <3>1 DEF Undoing
  <2>5. JobInv'
    BY <1>5, <1>8, <2>4 DEF JobInv, Disabling
  <2> QED
    BY <1>6, <2>3, <2>5
<1> QED
  BY <1>1, <1>7, <1>8, AtApply

-----------------------------------------------------------------------------
(* The cleanup and the end.                                                *)

LEMMA AtCleaning ==
  ASSUME PatchInv, job.pc = "apply", job.placed = <<>>
  PROVE  \/ /\ job.section = "enable" /\ job.deferred = <<>>
            /\ Hooked(attached)
         \/ /\ job.section = "disable" /\ job.deferred \in Seq(CleanLine)
            /\ Intact(attached)
<1>1. ASSUME job.section = "enable", job.deferred = <<>>,
             NEW b, NEW off, IsBody(b, off), NEW k \in 0..(Len(b) + 2), Patching(b, off, k)
      PROVE  Hooked(attached)
  <2> DEFINE c == symbols["newmem"]
  <2>1. job.placed = SubSeq(Plan(attached, c, b, off), k + 1, Len(b) + 2)
    BY <1>1 DEF Patching
  <2>2. ~(k < Len(b) + 2) /\ Len(b) \in Nat
    BY <1>1, <2>1, PlanIs, Offsets
  <2>3. k > Len(b)
    BY <2>2
  <2>4. HookedTo(attached, c, b, off) /\ "newmem" \in DOMAIN symbols
    BY <1>1, <2>3 DEF Patching
  <2>5. c \in Cave /\ owner[attached][c] = "assembler"
    <3>1. attached \in Proc \ Blocked
      BY JobParts DEF PatchInv, Typed
    <3> QED
      BY <2>4, <3>1 DEF PatchInv, ProcInv, SymbolsOK
  <2> HIDE DEF c
  <2> QED
    BY <1>1, <2>4, <2>5 DEF Hooked
<1>2. Undoing => Intact(attached)
  <2>1. \A x : <<x>> # <<>>
    OBVIOUS
  <2> QED
    BY <2>1 DEF Undoing
<1> QED
  BY <1>1, <1>2, AtApply

\* An allocation is freed: the instruction does not lead there any more.
LEMMA DeallocPatch ==
  ASSUME PatchInv, NEW p \in Proc \ Blocked, p = attached, NEW name,
         Position(name) # 0, Dealloc(name), Intact(p)
  PROVE  /\ \A q \in Proc : ModuleOK(q)' /\ (Intact(q)' \/ Hooked(q)')
         /\ Intact(p)' /\ SymbolsOK(p)' /\ AllocsOK(p)'
<1> DEFINE k == Position(name)
           n == Len(allocs)
           c == allocs[k].at
<1> USE DEF PatchInv, Typed
<1>1. BlockChange(p, c, "free", "unmapped") /\ MemoryOK
  BY DeallocTyped
<1>2. allocs \in Seq(Alloced) /\ n \in Nat
  BY DEF StateOK
<1>3. /\ k \in 1..n /\ allocs[k].name = name /\ allocs[k] \in Alloced
      /\ RemoveAt(allocs, k) \in Seq(Alloced) /\ Len(RemoveAt(allocs, k)) = n - 1
      /\ \A i \in 1..(n - 1) : RemoveAt(allocs, k)[i] = IF i < k THEN allocs[i] ELSE allocs[i + 1]
  BY <1>2, Positions
<1>4. AllocsOK(p) /\ SymbolsOK(p)
  BY DEF ProcInv
<1>5. c \in Cave /\ name = "newmem"
  BY <1>3, <1>4 DEF Alloced, AllocsOK
<1>6. allocs' = RemoveAt(allocs, k) /\ symbols' = [x \in DOMAIN symbols \ {name} |-> symbols[x]]
  BY DEF Dealloc
<1> HIDE DEF k, n, c
<1>7. ASSUME NEW q \in Proc, q # p PROVE Spared(q)
  BY <1>1, <1>5, <1>7, BlockSpares
<1>8. \A a \in Module : mem'[p][a] = mem[p][a]
  <2>1. \A a \in Module : a \in Addr /\ a \notin Cells(c)
    BY <1>5, Places
  <2> QED
    BY <1>1, <1>5, <2>1, BlockChanges
<1>9. ModuleOK(p)' /\ Intact(p)'
  <2>1. ModuleOK(p)
    BY DEF ProcInv
  <2>2. ModuleOK(p)'
    BY <1>8, <2>1 DEF ModuleOK
  <2>3. Intact(p)'
    BY <1>8, Places DEF Intact
  <2> QED
    BY <2>2, <2>3
<1>10. \A q \in Proc : ModuleOK(q)' /\ (Intact(q)' \/ Hooked(q)')
  BY <1>7, <1>9, SparedKept DEF ProcInv
<1>11. SymbolsOK(p)'
  <2>1. /\ "newmem" \notin DOMAIN symbols' /\ DOMAIN symbols' \subseteq DOMAIN symbols
        /\ \A x \in DOMAIN symbols' : symbols'[x] = symbols[x]
    BY <1>5, <1>6
  <2> QED
    BY <1>4, <2>1 DEF SymbolsOK
<1>12. AllocsOK(p)'
  <2> DEFINE from(i) == IF i < k THEN i ELSE i + 1
  <2>1. \A i \in 1..(n - 1) : from(i) \in 1..n /\ from(i) # k /\ allocs'[i] = allocs[from(i)]
    BY <1>2, <1>3, <1>6
  <2>2. \A i, j \in 1..(n - 1) : i # j => from(i) # from(j)
    BY <1>2, <1>3
  <2>3. Len(allocs') = n - 1
    BY <1>3, <1>6
  <2> HIDE DEF from
  <2>4. \A i \in 1..n : allocs[i].at \in Cave
    <3>1. \A i \in 1..n : allocs[i] \in Alloced
      BY <1>2 DEF n
    <3> QED
      BY <3>1 DEF Alloced
  <2>5. ASSUME NEW i \in 1..n, i # k
        PROVE  allocs[i].name = "newmem" /\ owner'[p][allocs[i].at] = "assembler"
    <3>1. /\ allocs[i].name = "newmem" /\ owner[p][allocs[i].at] = "assembler"
          /\ allocs[i].at # c
      BY <1>3, <1>4, <2>5 DEF AllocsOK, n, c
    <3> QED
      BY <1>1, <1>5, <2>4, <3>1, BlockChanges
  <2>6. \A i \in 1..(n - 1) : allocs'[i].name = "newmem" /\ owner'[p][allocs'[i].at] = "assembler"
    BY <2>1, <2>5
  <2>7. \A i, j \in 1..n : i # j => allocs[i].at # allocs[j].at
    BY <1>4 DEF AllocsOK, n
  <2>8. \A i, j \in 1..(n - 1) : i # j => allocs'[i].at # allocs'[j].at
    BY <2>1, <2>2, <2>7
  <2> QED
    BY <2>3, <2>6, <2>8 DEF AllocsOK
<1> QED
  BY <1>9, <1>10, <1>11, <1>12

LEMMA CleanupPatch == PatchInv /\ OneTarget /\ Cleanup => PatchInv'
<1> SUFFICES ASSUME PatchInv, OneTarget, Cleanup PROVE PatchInv'
  OBVIOUS
<1>1. /\ job.pc = "apply" /\ job.placed = <<>> /\ job.deferred # <<>> /\ RunDeferred
      /\ job' = [job EXCEPT !.deferred = Tail(@)]
      /\ UNCHANGED <<attached, script, outcome>>
  BY DEF Cleanup, RunDeferred, user
<1>2. JobOK /\ Typed'
  BY CleanupTyped DEF PatchInv, Typed
<1>3. PICK p \in Proc \ Blocked : p = attached
  BY <1>1, <1>2, JobParts
<1>4. job.section = "disable" /\ job.deferred \in Seq(CleanLine) /\ Intact(p)
  BY <1>1, <1>3, AtCleaning DEF Intact
<1>5. /\ job'.pc = "apply" /\ job'.section = "disable" /\ job'.placed = <<>>
      /\ job'.deferred = Tail(job.deferred) /\ outcome' = NoOutcome
  <2>1. outcome = NoOutcome
    BY <1>1 DEF PatchInv, JobInv
  <2> QED
    BY <1>1, <1>2, <1>4, <2>1 DEF JobOK, JobType
<1>6. SymbolsOK(p) /\ AllocsOK(p) /\ ProcInv
  BY DEF PatchInv, ProcInv
<1>7. /\ \A q \in Proc : ModuleOK(q)' /\ (Intact(q)' \/ Hooked(q)')
      /\ Intact(p)' /\ SymbolsOK(p)' /\ AllocsOK(p)'
  <2> DEFINE d == Head(job.deferred)
  <2>1. ASSUME mem' = mem, owner' = owner
        PROVE  (\A q \in Proc : ModuleOK(q)' /\ (Intact(q)' \/ Hooked(q)')) /\ Intact(p)'
    <3>1. \A q \in Proc : Spared(q)
      BY <2>1, SameSpares
    <3> QED
      BY <1>4, <1>6, <3>1, SparedKept DEF ProcInv
  <2>2. CASE d.op = "unregistersymbol"
    <3>1. /\ symbols' = [n \in DOMAIN symbols \ {d.name} |-> symbols[n]]
          /\ UNCHANGED <<mem, owner, allocs>>
      BY <1>1, <2>2 DEF RunDeferred, Unregister
    <3>2. SymbolsOK(p)' /\ AllocsOK(p)'
      BY <1>6, <3>1 DEF SymbolsOK, AllocsOK
    <3> QED
      BY <2>1, <3>1, <3>2
  <2>3. CASE d.op # "unregistersymbol" /\ Position(d.name) # 0
    <3>1. Dealloc(d.name)
      BY <1>1, <2>3 DEF RunDeferred
    <3> HIDE DEF d
    <3> QED
      BY <1>3, <1>4, <2>3, <3>1, DeallocPatch
  <2>4. CASE d.op # "unregistersymbol" /\ Position(d.name) = 0
    <3>1. UNCHANGED <<mem, owner, symbols, allocs>>
      BY <1>1, <2>4 DEF RunDeferred, asm
    <3>2. SymbolsOK(p)' /\ AllocsOK(p)'
      BY <1>6, <3>1 DEF SymbolsOK, AllocsOK
    <3> QED
      BY <2>1, <3>1, <3>2
  <2> QED
    BY <2>2, <2>3, <2>4
<1>8. ProcInv'
  <2>1. \A q \in Proc \ Blocked : q = p
    BY DEF OneTarget
  <2> QED
    BY <1>7, <2>1 DEF ProcInv
<1>9. JobInv'
  <2>1. Intact(attached)'
    BY <1>1, <1>3, <1>7 DEF Intact
  <2>2. Tail(job.deferred) \in Seq(CleanLine)
    BY <1>1, <1>4
  <2> QED
    BY <1>5, <2>1, <2>2 DEF JobInv, Disabling, Undoing
<1>10. OutcomeInv'
  BY <1>5, Outcomes DEF OutcomeInv
<1> QED
  BY <1>2, <1>8, <1>9, <1>10 DEF PatchInv

LEMMA FinishPatch == PatchInv /\ FinishRun => PatchInv'
<1> SUFFICES ASSUME PatchInv, FinishRun PROVE PatchInv'
  OBVIOUS
<1>1. /\ job.pc = "apply" /\ job.placed = <<>> /\ job.deferred = <<>> /\ job' = Idle
      /\ outcome' = RunDone(job.section, "steps")
      /\ UNCHANGED <<mem, owner, attached, symbols, allocs>>
  BY DEF FinishRun, user, asm
<1>2. Typed'
  BY FinishTyped DEF PatchInv
<1>3. ProcInv'
  BY <1>1, SameSpares, SparedProcs DEF PatchInv, Typed, StateOK
<1>4. JobInv'
  BY <1>1, IdleTyped DEF JobInv
<1>5. PICK p \in Proc : p = attached
  BY <1>1, JobParts DEF PatchInv, Typed
<1>6. (Hooked(p) => Hooked(p)') /\ (Intact(p) => Intact(p)')
  BY <1>1, SameSpares, SparedKept
<1>7. CASE job.section = "enable" /\ Hooked(attached)
  <2>1. PICK c \in Cave : \E b, off :
          owner[p][c] = "assembler" /\ IsBody(b, off) /\ HookedTo(p, c, b, off)
    BY <1>5, <1>7 DEF Hooked
  <2>2. PICK b, off : owner[p][c] = "assembler" /\ IsBody(b, off) /\ HookedTo(p, c, b, off)
    BY <2>1
  <2>3. attached' = p /\ IsBody(b, off)' /\ owner'[p][c] = "assembler"
    BY <1>1, <1>5, <2>2 DEF IsBody
  <2>4. HookedTo(attached, c, b, off)'
    BY <1>1, <2>2, <2>3 DEF HookedTo, Holds, Shows
  <2>5. Hooked(attached)'
    BY <2>3, <2>4 DEF Hooked
  <2> QED
    BY <1>1, <1>2, <1>3, <1>4, <1>5, <1>7, <2>5, Outcomes DEF PatchInv, OutcomeInv
<1>8. CASE job.section = "disable" /\ Intact(attached)
  <2>1. Intact(attached)'
    BY <1>1, <1>8 DEF Intact
  <2> QED
    BY <1>1, <1>2, <1>3, <1>4, <1>5, <1>8, <2>1, Outcomes DEF PatchInv, OutcomeInv
<1> QED
  BY <1>1, <1>7, <1>8, AtCleaning


-----------------------------------------------------------------------------
(* Together.                                                               *)

LEMMA StutterPatch == PatchInv /\ UNCHANGED aaVars => PatchInv'
<1> SUFFICES ASSUME PatchInv, UNCHANGED aaVars PROVE PatchInv'
  OBVIOUS
<1>1. UNCHANGED <<mem, owner, attached, symbols, allocs, job, outcome>>
  BY DEF aaVars
<1>2. Typed'
  BY StutterTyped DEF PatchInv
<1> QED
  BY <1>1, <1>2, SameSpares, QuietStep

LEMMA NextPatch ==
  ASSUME OneTarget, AllDocumented, PatchInv, [AaNext]_aaVars
  PROVE  PatchInv'
<1>1. CASE \E p \in Proc : Attach(p)
  BY <1>1, AttachPatch
<1>2. CASE \E s \in Script : ChangeScript(s)
  BY <1>2, ChangeScriptPatch
<1>3. CASE \E section \in {"enable", "disable"} : RunSection(section)
  BY <1>3, RunPatch
<1>4. CASE Commands
  <2>1. AllocFails \/ ScanFails => Fail
    BY DEF AllocFails, ScanFails
  <2> QED
    BY <1>4, <2>1, AllocPatch, ScanPatch, DeferPatch, CollectPatch, FailPatch DEF Commands
<1>5. CASE Layout
  BY <1>5, LayoutPatch
<1>6. CASE Apply
  <2>1. WriteFails => Fail
    BY DEF WriteFails
  <2> QED
    BY <1>6, <2>1, WritePatch, CleanupPatch, FinishPatch, FailPatch DEF Apply
<1>7. CASE \E p \in Proc, c \in Cave : GameAllocates(p, c) \/ GameFrees(p, c)
  BY <1>7, GamePatch
<1>8. CASE UNCHANGED aaVars
  BY <1>8, StutterPatch
<1> QED
  BY <1>1, <1>2, <1>3, <1>4, <1>5, <1>6, <1>7, <1>8 DEF AaNext

\* With one process to run scripts on, and scripts as documented, every state
\* is one of those PatchInv describes.
THEOREM PatchesAreWhole ==
  ASSUME OneTarget, AllDocumented
  PROVE  AaSpec => []PatchInv
<1>1. AaInit => PatchInv
  BY PatchInit
<1>2. PatchInv /\ [AaNext]_aaVars => PatchInv'
  BY NextPatch
<1> QED
  BY <1>1, <1>2, PTL DEF AaSpec

\* The game comes out behind the patched instruction whenever it gets there:
\* the jump is written when the whole cave is, and no cave that a jump leads
\* to is given back.
THEOREM TheGameSurvives ==
  ASSUME OneTarget, AllDocumented
  PROVE  AaSpec => []GameSurvives
<1>1. PatchInv => GameSurvives
  BY IntactPasses, HookedPasses DEF PatchInv, ProcInv, GameSurvives
<1> QED
  BY <1>1, PatchesAreWhole, PTL

\* An Enable that reports success, and not that it found nothing to do, has hooked the
\* instruction.
THEOREM EnableWorks ==
  ASSUME OneTarget, AllDocumented
  PROVE  AaSpec => []EnableApplies
<1>1. PatchInv => EnableApplies
  <2> SUFFICES ASSUME PatchInv, outcome.status = "enabled", outcome.log # "(secao vazia)"
               PROVE  /\ mem[attached][Site[attached]].op = "jmp"
                      /\ Site[attached] \in Passes(attached)
    BY DEF EnableApplies
  <2>1. attached \in Proc /\ Hooked(attached)
    BY DEF PatchInv, OutcomeInv
  <2> QED
    BY <2>1, HookedPasses DEF Hooked, HookedTo
<1> QED
  BY <1>1, PatchesAreWhole, PTL

\* A Disable that reports success, and not that it found nothing to do, has restored the
\* instruction.
THEOREM DisableWorks ==
  ASSUME OneTarget, AllDocumented
  PROVE  AaSpec => []DisableUndoes
<1>1. PatchInv => DisableUndoes
  BY DEF PatchInv, OutcomeInv, DisableUndoes, Intact
<1> QED
  BY <1>1, PatchesAreWhole, PTL

-----------------------------------------------------------------------------
(* The game's own blocks.                                                  *)

\* A write is in the module or in a block the assembler holds.
LEMMA SpanIs ==
  ASSUME PatchInv, Write
  PROVE  \/ \A a \in Span : a \in Module
         \/ \E c \in Cave : /\ owner[attached][c] = "assembler"
                         /\ \A a \in Span : a \in Cells(c)
<1>1. job.pc = "apply" /\ job.placed # <<>> /\ NextPlaced = Head(job.placed) /\ JobOK
  BY DEF Write, Writing, NextPlaced, PatchInv, Typed
<1>2. PICK p \in Proc \ Blocked : p = attached /\ SymbolsOK(p)
  BY <1>1, JobParts DEF PatchInv, ProcInv
<1>3. /\ Site[p] \in Module /\ Site[p] + 1 \in Module /\ Site[p] \in Nat /\ Site[p] + 1 \in Nat
  BY Places
<1>4. ASSUME job.section = "enable", job.deferred = <<>>,
             NEW b, NEW off, IsBody(b, off), NEW k \in 0..(Len(b) + 2), Patching(b, off, k)
      PROVE  \/ \A a \in Span : a \in Module
             \/ \E c \in Cave : owner[p][c] = "assembler" /\ \A a \in Span : a \in Cells(c)
  <2>1. PICK c \in Cave : c = symbols["newmem"] /\ owner[p][c] = "assembler"
    BY <1>2, <1>4 DEF Patching, SymbolsOK
  <2> DEFINE m == Len(b)
             s == Plan(p, c, b, off)
  <2>2. job.placed = SubSeq(s, k + 1, m + 2)
    BY <1>2, <1>4, <2>1 DEF Patching, Plan
  <2>3. m \in Nat /\ k \in Nat
    BY <1>4, Offsets DEF IsBody
  <2>4. k < m + 2 /\ NextPlaced = s[k + 1]
    <3> DEFINE u == SubSeq(s, k + 1, m + 2)
    <3>1. /\ u # <<>> <=> k < m + 2
          /\ k < m + 2 => Head(u) = s[k + 1] /\ Tail(u) = SubSeq(s, k + 2, m + 2)
      BY <1>4, PlanIs
    <3> HIDE DEF u, s, m
    <3> QED
      BY <1>1, <2>2, <3>1 DEF u
  <2> DEFINE i == k + 1
  <2>5. i \in 1..(m + 2)
    BY <2>3, <2>4
  <2>6. s[i] = IF i <= m THEN [at |-> c + off[i], line |-> b[i]]
               ELSE IF i = m + 1 THEN [at |-> Site[p], line |-> L("jmp", "newmem")]
               ELSE [at |-> Site[p] + 1, line |-> L("nop", "")]
    BY <2>5 DEF Plan
  <2> HIDE DEF s
  <2>7. CASE i <= m
    <3>1. NextPlaced = [at |-> c + off[i], line |-> b[i]] /\ i \in 1..m
      BY <2>4, <2>5, <2>6, <2>7
    <3>2. Span = (c + off[i])..(c + off[i] + LineSize(b[i]) - 1)
      BY <3>1 DEF Span
    <3> HIDE DEF i
    <3>3. \A a \in Span : a \in Cells(c)
      BY <1>4, <3>1, <3>2, InCave
    <3> QED
      BY <2>1, <3>3
  <2>8. CASE ~(i <= m)
    <3>1. \/ NextPlaced = [at |-> Site[p], line |-> L("jmp", "newmem")]
          \/ NextPlaced = [at |-> Site[p] + 1, line |-> L("nop", "")]
      BY <2>4, <2>6, <2>8
    <3>2. L("jmp", "newmem").op = "jmp" /\ L("nop", "").op = "nop"
      BY LIs
    <3>3. NextPlaced.at \in {Site[p], Site[p] + 1} /\ LineSize(NextPlaced.line) = 1
      <4>1. CASE NextPlaced = [at |-> Site[p], line |-> L("jmp", "newmem")]
        <5>1. NextPlaced.at = Site[p] /\ NextPlaced.line = L("jmp", "newmem")
          BY <4>1
        <5> QED
          BY <3>2, <5>1 DEF LineSize
      <4>2. CASE NextPlaced = [at |-> Site[p] + 1, line |-> L("nop", "")]
        <5>1. NextPlaced.at = Site[p] + 1 /\ NextPlaced.line = L("nop", "")
          BY <4>2
        <5> QED
          BY <3>2, <5>1 DEF LineSize
      <4> QED
        BY <3>1, <4>1, <4>2
    <3>4. Span = {NextPlaced.at}
      BY <1>3, <3>3, OneCell DEF Span
    <3> QED
      BY <1>3, <3>3, <3>4
  <2> QED
    BY <2>7, <2>8
<1>5. ASSUME job.section = "disable", Undoing PROVE \A a \in Span : a \in Module
  <2> DEFINE x == [at |-> Site[p], line |-> L("db", "")]
  <2>1. job.placed = <<x>>
    BY <1>1, <1>2, <1>5 DEF Undoing
  <2> HIDE DEF x
  <2>2. NextPlaced = x
    BY <1>1, <2>1
  <2>3. NextPlaced.at = Site[p] /\ LineSize(NextPlaced.line) = 2
    BY <2>2, LIs DEF x, LineSize
  <2>4. \A a \in Span : a \in {Site[p], Site[p] + 1}
    BY <1>3, <2>3, TwoCells DEF Span
  <2> QED
    BY <1>3, <2>4
<1> QED
  BY <1>1, <1>2, <1>4, <1>5, AtApply

\* What GameBlocksUntouched says of a block.
Untouched(p, c) == owner'[p][c] = "game" /\ \A a \in Cells(c) : mem'[p][a] = mem[p][a]

\* Another block changes.
LEMMA OthersUntouched ==
  ASSUME MemoryOK, NEW q \in Proc, NEW d \in Cave, NEW o, NEW op, BlockChange(q, d, o, op),
         NEW p \in Proc, NEW c \in Cave, owner[p][c] = "game", p # q \/ c # d
  PROVE  Untouched(p, c)
<1>1. owner'[p][c] = "game"
  BY BlockChanges
<1>2. ASSUME NEW a \in Cells(c) PROVE mem'[p][a] = mem[p][a]
  <2>1. a \in Addr /\ ~(p = q /\ a \in Cells(d))
    BY Places
  <2> QED
    BY <2>1, BlockChanges
<1> QED
  BY <1>1, <1>2 DEF Untouched

LEMMA AllocUntouched ==
  ASSUME PatchInv, Alloc, NEW p \in Proc, NEW c \in Cave, owner[p][c] = "game"
  PROVE  Untouched(p, c)
<1>1. job.pc = "commands" /\ JobOK /\ MemoryOK
  BY DEF Alloc, Doing, PatchInv, Typed
<1>2. PICK q \in Proc : q = attached
  BY <1>1, JobParts DEF PatchInv, Typed
<1>3. PICK d \in AllocChoice : BlockChange(q, d, "assembler", "zero")
  BY <1>2 DEF Alloc, BlockChange
<1>4. d \in Cave /\ owner[q][d] = "free"
  BY <1>2 DEF AllocChoice, Free
<1>5. p # q \/ c # d
  BY <1>4
<1> QED
  BY <1>1, <1>3, <1>4, <1>5, OthersUntouched

LEMMA WriteUntouched ==
  ASSUME PatchInv, Write, NEW p \in Proc, NEW c \in Cave, owner[p][c] = "game"
  PROVE  Untouched(p, c)
<1>1. job.pc = "apply" /\ JobOK /\ MemoryOK /\ owner' = owner
  BY DEF Write, Writing, PatchInv, Typed
<1>2. PICK q \in Proc \ Blocked : q = attached
  BY <1>1, JobParts DEF PatchInv, Typed
<1>3. ASSUME NEW a \in Cells(c) PROVE mem'[p][a] = mem[p][a]
  <2>1. a \in Addr /\ a \notin Module
    BY Places
  <2>2. ~(p = q /\ a \in Span)
    <3> SUFFICES ASSUME p = q, a \in Span PROVE FALSE
      OBVIOUS
    <3>1. PICK d \in Cave : owner[q][d] = "assembler" /\ a \in Cells(d)
      BY <1>2, <2>1, SpanIs
    <3>2. c # d
      BY <3>1
    <3> QED
      BY <3>1, <3>2, Places
  <2> QED
    BY <1>1, <1>2, <2>1, <2>2, WriteIs
<1> QED
  BY <1>1, <1>3 DEF Untouched

LEMMA CleanupUntouched ==
  ASSUME PatchInv, Cleanup, NEW p \in Proc, NEW c \in Cave, owner[p][c] = "game"
  PROVE  Untouched(p, c)
<1>1. job.pc = "apply" /\ JobOK /\ MemoryOK /\ RunDeferred
  BY DEF Cleanup, RunDeferred, PatchInv, Typed
<1>2. PICK q \in Proc \ Blocked : q = attached
  BY <1>1, JobParts DEF PatchInv, Typed
<1> DEFINE d == Head(job.deferred)
<1>3. ASSUME mem' = mem, owner' = owner PROVE Untouched(p, c)
  BY <1>3 DEF Untouched
<1>4. CASE d.op # "unregistersymbol" /\ Position(d.name) # 0
  <2> DEFINE k == Position(d.name)
             e == allocs[k].at
  <2>1. Dealloc(d.name)
    BY <1>1, <1>4 DEF RunDeferred
  <2> HIDE DEF d
  <2>2. BlockChange(q, e, "free", "unmapped")
    BY <1>2, <1>4, <2>1, DeallocTyped DEF PatchInv
  <2>3. k \in 1..Len(allocs) /\ allocs[k] \in Alloced
    BY <1>4, Positions DEF PatchInv, Typed, StateOK
  <2>4. AllocsOK(q)
    BY DEF PatchInv, ProcInv
  <2>5. e \in Cave /\ owner[q][e] = "assembler"
    BY <2>3, <2>4 DEF AllocsOK, Alloced
  <2> HIDE DEF k, e
  <2>6. p # q \/ c # e
    BY <2>5
  <2> QED
    BY <1>1, <2>2, <2>5, <2>6, OthersUntouched
<1>5. CASE d.op = "unregistersymbol" \/ Position(d.name) = 0
  <2>1. mem' = mem /\ owner' = owner
    BY <1>1, <1>5 DEF RunDeferred, Unregister, asm
  <2> QED
    BY <1>3, <2>1
<1> QED
  BY <1>4, <1>5

LEMMA NextUntouched ==
  ASSUME PatchInv, AaNext, NEW p \in Proc, NEW c \in Cave, owner[p][c] = "game"
  PROVE  Untouched(p, c) \/ GameFrees(p, c)
<1>1. MemoryOK
  BY DEF PatchInv, Typed
<1>2. ASSUME mem' = mem, owner' = owner PROVE Untouched(p, c)
  BY <1>2 DEF Untouched
<1>3. CASE Commands
  <2>1. AllocFails \/ Scan \/ ScanFails \/ Defer \/ Collect => mem' = mem /\ owner' = owner
    BY DEF AllocFails, Scan, ScanFails, Defer, Collect, Fail
  <2> QED
    BY <1>2, <1>3, <2>1, AllocUntouched DEF Commands
<1>4. CASE Apply
  <2>1. WriteFails \/ FinishRun => mem' = mem /\ owner' = owner
    BY DEF WriteFails, FinishRun, Fail
  <2> QED
    BY <1>2, <1>4, <2>1, WriteUntouched, CleanupUntouched DEF Apply
<1>5. ASSUME NEW q \in Proc, NEW d \in Cave, GameAllocates(q, d) PROVE Untouched(p, c)
  <2>1. BlockChange(q, d, "game", "data") /\ owner[q][d] = "free"
    BY <1>5 DEF GameAllocates, BlockChange
  <2>2. p # q \/ c # d
    BY <2>1
  <2> QED
    BY <1>1, <2>1, <2>2, OthersUntouched
<1>6. ASSUME NEW q \in Proc, NEW d \in Cave, GameFrees(q, d)
      PROVE  Untouched(p, c) \/ GameFrees(p, c)
  <2>1. BlockChange(q, d, "free", "unmapped")
    BY <1>6 DEF GameFrees, BlockChange
  <2>2. CASE p # q \/ c # d
    BY <1>1, <2>1, <2>2, OthersUntouched
  <2>3. CASE p = q /\ c = d
    BY <1>6, <2>3
  <2> QED
    BY <2>2, <2>3
<1>7. ASSUME \/ \E q \in Proc : Attach(q)
             \/ \E s \in Script : ChangeScript(s)
             \/ \E section \in {"enable", "disable"} : RunSection(section)
             \/ Layout
      PROVE  mem' = mem /\ owner' = owner
  BY <1>7 DEF Attach, ChangeScript, RunSection, Layout
<1> QED
  BY <1>2, <1>3, <1>4, <1>5, <1>6, <1>7 DEF AaNext

\* The assembler writes to and frees only blocks that it allocated and holds,
\* never one the game has taken since.
THEOREM GameBlocksStay ==
  ASSUME OneTarget, AllDocumented
  PROVE  AaSpec => GameBlocksUntouched
<1> DEFINE Kept == \A p \in Proc, c \in Cave : owner[p][c] = "game" =>
                     \/ owner'[p][c] = "game" /\ \A a \in Cells(c) : mem'[p][a] = mem[p][a]
                     \/ GameFrees(p, c)
<1>1. PatchInv /\ [AaNext]_aaVars => [Kept]_aaVars
  BY NextUntouched DEF Untouched
<1> QED
  BY <1>1, PatchesAreWhole, PTL DEF AaSpec, GameBlocksUntouched

-----------------------------------------------------------------------------
(* The scripts of the documentation are of the form the theorems ask for.  *)

\* Where each line of a cave begins.
Starts(b) == [i \in 1..(Len(b) + 1) |->
                IF i = 1 THEN 0 ELSE IF i = 2 THEN LineSize(b[1])
                ELSE IF i = 3 THEN LineSize(b[1]) + LineSize(b[2])
                ELSE LineSize(b[1]) + LineSize(b[2]) + LineSize(b[3])]

LEMMA ShortBody ==
  ASSUME NEW b \in Seq(BodyLine), Len(b) \in 2..3, b[Len(b)].op = "jmp",
         CAVE_SIZE >= 4, Len(b) = 3 => LineSize(b[1]) = 1
  PROVE  IsBody(b, Starts(b))
<1> DEFINE off == Starts(b)
           x == LineSize(b[1])
           y == LineSize(b[2])
           z == LineSize(b[3])
<1>1. \A l : LineSize(l) \in 1..2 /\ (l.op = "jmp" => LineSize(l) = 1)
  BY DEF LineSize
<1>2. x \in 1..2 /\ y \in 1..2 /\ z \in 1..2
  BY <1>1
<1>3. Len(b) = 2 => y = 1
  BY <1>1
<1>4. Len(b) = 3 => z = 1 /\ x = 1
  BY <1>1
<1>5. off = [i \in 1..(Len(b) + 1) |-> IF i = 1 THEN 0 ELSE IF i = 2 THEN x
                                      ELSE IF i = 3 THEN x + y ELSE x + y + z]
  BY DEF Starts
<1> HIDE DEF off, x, y, z
<1>6. off \in [1..(Len(b) + 1) -> Nat]
  BY <1>2, <1>5
<1>7. off[1] = 0 /\ off[2] = x /\ off[3] = x + y /\ (Len(b) = 3 => off[4] = x + y + z)
  BY <1>5
<1>8. off[Len(b) + 1] <= CAVE_SIZE
  <2>1. CASE Len(b) = 2
    BY <1>2, <1>3, <1>7, <2>1, AaAssumption
  <2>2. CASE Len(b) = 3
    BY <1>2, <1>4, <1>7, <2>2, AaAssumption
  <2> QED
    BY <2>1, <2>2
<1>9. ASSUME NEW i \in 1..Len(b) PROVE off[i + 1] = off[i] + LineSize(b[i])
  <2>1. i \in 1..3 /\ (i = 3 => Len(b) = 3)
    OBVIOUS
  <2>2. CASE i = 1
    BY <1>2, <1>7, <2>2 DEF x
  <2>3. CASE i = 2
    BY <1>2, <1>7, <2>3 DEF x, y
  <2>4. CASE i = 3
    BY <1>2, <1>7, <2>1, <2>4 DEF x, y, z
  <2> QED
    BY <2>1, <2>2, <2>3, <2>4
<1> QED
  BY <1>6, <1>7, <1>8, <1>9 DEF IsBody, off

LEMMA TwoCommands ==
  ASSUME NEW u \in CommandLine, NEW v \in CommandLine, "aobscanmodule" \in {u.op, v.op}
  PROVE  <<u, v>> \in Seq(CommandLine) /\ HasScan(<<u, v>>)
<1> DEFINE r == <<u, v>>
<1>1. r \in Seq(CommandLine) /\ Len(r) = 2 /\ r[1] = u /\ r[2] = v
  OBVIOUS
<1> HIDE DEF r
<1>2. HasScan(r)
  <2>1. 1 \in 1..2 /\ 2 \in 1..2
    OBVIOUS
  <2> QED
    BY <1>1, <2>1 DEF HasScan
<1> QED
  BY <1>1, <1>2 DEF r

\* Two commands, and a cave of two lines or of three.
LEMMA FiveAre ==
  ASSUME NEW u \in CommandLine, NEW v \in CommandLine, NEW x \in BodyLine, NEW y \in BodyLine
  PROVE  <<u, v, L("anchor", "newmem"), x, y>> \o Patch = <<u, v>> \o CodeOf(<<x, y>>)
<1> DEFINE h == L("anchor", "newmem")
           S == {u, v, h, x, y} \cup {L("anchor", "inject"), L("jmp", "newmem"), L("nop", ""),
                                   L("anchor", "return")}
<1>1. Patch \in Seq(S)
  BY Short DEF Patch
<1>2. u \in S /\ v \in S /\ h \in S /\ x \in S /\ y \in S
  OBVIOUS
<1> HIDE DEF S, h
<1>3. <<u, v, h, x, y>> \o Patch = <<u, v>> \o (<<h>> \o (<<x, y>> \o Patch))
  BY <1>1, <1>2
<1> QED
  BY <1>3 DEF CodeOf, h

LEMMA FiveLines ==
  ASSUME NEW u \in CommandLine, NEW v \in CommandLine, "aobscanmodule" \in {u.op, v.op},
         NEW x \in BodyLine, NEW y \in BodyLine, y.op = "jmp", CAVE_SIZE >= 4,
         NEW s, s.enable = <<u, v, L("anchor", "newmem"), x, y>> \o Patch,
         NEW clean \in Seq(CleanLine), s.disable = Restore \o clean
  PROVE  Documented(s)
<1> DEFINE r == <<u, v>>
           b == <<x, y>>
<1>1. r \in Seq(CommandLine) /\ HasScan(r)
  BY TwoCommands
<1>2. b \in Seq(BodyLine) /\ Len(b) = 2 /\ b[2] = y
  OBVIOUS
<1>3. s.enable = r \o CodeOf(b)
  <2>1. <<u, v, L("anchor", "newmem"), x, y>> \o Patch = <<u, v>> \o CodeOf(<<x, y>>)
    BY FiveAre, Zenon
  <2> QED
    BY <2>1, Zenon
<1> HIDE DEF r, b
<1>4. Len(b) \in 2..3 /\ b[Len(b)].op = "jmp" /\ Len(b) # 3
  BY <1>2
<1>5. IsBody(b, Starts(b))
  BY <1>2, <1>4, ShortBody
<1> QED
  BY <1>1, <1>3, <1>5 DEF Documented

LEMMA SixLines ==
  ASSUME NEW u \in CommandLine, NEW v \in CommandLine, "aobscanmodule" \in {u.op, v.op},
         NEW x \in BodyLine, NEW y \in BodyLine, NEW w \in BodyLine,
         w.op = "jmp", LineSize(x) = 1, CAVE_SIZE >= 4,
         NEW s, s.enable = <<u, v, L("anchor", "newmem"), x, y, w>> \o Patch,
         NEW clean \in Seq(CleanLine), s.disable = Restore \o clean
  PROVE  Documented(s)
<1> DEFINE r == <<u, v>>
           b == <<x, y, w>>
<1>1. r \in Seq(CommandLine) /\ HasScan(r)
  BY TwoCommands
<1>2. b \in Seq(BodyLine) /\ Len(b) = 3 /\ b[1] = x /\ b[3] = w
  OBVIOUS
<1>3. s.enable = r \o CodeOf(b)
  <2> DEFINE h == L("anchor", "newmem")
             S == {u, v, h, x, y, w} \cup {L("anchor", "inject"), L("jmp", "newmem"), L("nop", ""),
                                     L("anchor", "return")}
  <2>1. Patch \in Seq(S)
    BY Short DEF Patch
  <2>2. u \in S /\ v \in S /\ h \in S /\ x \in S /\ y \in S /\ w \in S
    OBVIOUS
  <2> HIDE DEF S, h
  <2>3. <<u, v, h, x, y, w>> \o Patch = <<u, v>> \o (<<h>> \o (<<x, y, w>> \o Patch))
    BY <2>1, <2>2
  <2> QED
    BY <2>3 DEF CodeOf, h
<1> HIDE DEF r, b
<1>4. Len(b) \in 2..3 /\ b[Len(b)].op = "jmp" /\ LineSize(b[1]) = 1
  BY <1>2
<1>5. IsBody(b, Starts(b))
  BY <1>2, <1>4, ShortBody
<1> QED
  BY <1>1, <1>3, <1>5 DEF Documented

\* What the theorems above ask of the scripts holds of those the repository
\* documents, whenever their names are names and a cave has room for them.
THEOREM DocumentedConform ==
  ASSUME {"", "inject", "newmem", "return"} \subseteq Name, CAVE_SIZE >= 4,
         Script \subseteq ModuleScripts
  PROVE  AllDocumented
<1> DEFINE scan == L("aobscanmodule", "inject")
           near == AllocNear("newmem", "inject")
           here == L("alloc", "newmem")
           back == L("jmp", "return")
           bytes == L("db", "")
           hop   == L("nop", "")
           test  == L("je", "return")
           forget == L("unregistersymbol", "inject")
           free  == L("dealloc", "newmem")
<1>1. /\ scan \in CommandLine /\ near \in CommandLine /\ here \in CommandLine
      /\ scan.op = "aobscanmodule"
  BY DEF L, AllocNear, CommandLine, ScriptLine, Operation
<1>2. /\ back \in BodyLine /\ bytes \in BodyLine /\ hop \in BodyLine /\ test \in BodyLine
      /\ back.op = "jmp" /\ LineSize(test) = 1
  BY DEF L, BodyLine, ScriptLine, Operation, Emission, Jumps, LineSize
<1>3. forget \in CleanLine /\ free \in CleanLine
  BY DEF L, CleanLine, ScriptLine, Operation
<1> HIDE DEF scan, near, here, back, bytes, hop, test, forget, free
<1>4. <<free>> \in Seq(CleanLine) /\ <<forget, free>> \in Seq(CleanLine)
  BY <1>3, Short
<1>5. Documented(Readme)
  <2>1. Readme.enable = <<scan, near, L("anchor", "newmem"), bytes, back>> \o Patch
    BY DEF Readme, scan, near, bytes, back
  <2>2. Readme.disable = Restore \o <<free>>
    BY DEF Readme, free
  <2> QED
    BY <1>1, <1>2, <1>4, <2>1, <2>2, FiveLines
<1>6. Documented(Template)
  <2>1. Template.enable = <<scan, near, L("anchor", "newmem"), hop, back>> \o Patch
    BY DEF Template, scan, near, hop, back
  <2>2. Template.disable = Restore \o <<forget, free>>
    BY DEF Template, forget, free
  <2> QED
    BY <1>1, <1>2, <1>4, <2>1, <2>2, FiveLines
<1>7. Documented(Branching)
  <2>1. Branching.enable = <<here, scan, L("anchor", "newmem"), test, bytes, back>> \o Patch
    BY DEF Branching, here, scan, test, bytes, back
  <2>2. Branching.disable = Restore \o <<free>>
    BY DEF Branching, free
  <2> QED
    BY <1>1, <1>2, <1>4, <2>1, <2>2, SixLines
<1>8. Documented(Empty)
  BY DEF Documented, Empty
<1> QED
  BY <1>5, <1>6, <1>7, <1>8 DEF AllDocumented, ModuleScripts
=============================================================================
