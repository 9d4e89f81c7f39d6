----------------------------- MODULE PointerScan -----------------------------
(***************************************************************************)
(* The pointer scan: a map of everything in memory that looks like a       *)
(* pointer, then a search backwards from the target, depth first, to an    *)
(* address inside a module. A chain is the sequence of the addresses it    *)
(* reads, from the module on.                                              *)
(*                                                                         *)
(* Memory is a function from the aligned addresses to what is read there.  *)
(* The game goes on writing while the map is made, and not afterwards: the *)
(* search does not read memory.                                            *)
(***************************************************************************)
EXTENDS Integers, Sequences, FiniteSets, SequencesExt

CONSTANTS
  Region,       \* the committed regions: a sequence of sets of addresses
  Static,       \* the addresses inside modules
  Values,       \* what an address may hold
  MaxAddress,   \* addresses are at most this
  MaxOffset, MaxDepth, MaxResults,
  Targets,
  MaxPokes      \* writes of the game during the scan

ASSUME PointerConstants ==
  /\ {MaxAddress, MaxOffset, MaxResults, MaxPokes} \subseteq Nat /\ MaxDepth \in Nat \ {0}
  /\ Values \subseteq Nat /\ Targets \subseteq 0..MaxAddress
  /\ Region \in Seq(SUBSET (0..MaxAddress))
  /\ \A q, r \in DOMAIN Region : q # r => Region[q] \cap Region[r] = {}

VARIABLES
  memory,       \* what each aligned address holds
  target,       \* params.target
  left,         \* the regions the map is still to be made of
  map,          \* the entries, address and value read, sorted by value in the end
  stack,        \* the calls of search_rec: target, entries left, entry taken
  found,        \* results
  cancel,       \* progress.cancel
  phase,        \* "map", "search", "done"
  whole,        \* the search was not cut short
  pokes

psVars == <<memory, target, left, map, stack, found, cancel, phase, whole, pokes>>

Committed == UNION {Region[r] : r \in DOMAIN Region}
Aligned   == DOMAIN memory

-----------------------------------------------------------------------------
(* build_pointer_map                                                       *)

LooksLikePointer(v) == v # 0 /\ v \in Committed

EntriesOf(cells) == {[addr |-> a, val |-> memory[a]] : a \in {b \in cells : LooksLikePointer(memory[b])}}

\* Stable: entries of one value keep the order of their addresses.
Before(e, f) == e.val < f.val \/ (e.val = f.val /\ e.addr < f.addr)

\* SortSeq, written so that its entries can be reasoned about: the n-th of S has
\* n - 1 before it.
Sorted(S) ==
  [n \in 1..Cardinality(S) |->
     CHOOSE e \in S : Cardinality({f \in S : Before(f, e)}) = n - 1]

\* The pointers of one region, or nothing of a region that cannot be read.
MapRegion ==
  /\ phase = "map" /\ left # <<>> /\ ~cancel
  /\ \E readable \in BOOLEAN :
       map' = IF readable THEN map \cup EntriesOf(Aligned \cap Head(left)) ELSE map
  /\ left' = Tail(left)
  /\ UNCHANGED <<memory, target, stack, found, cancel, phase, whole, pokes>>

-----------------------------------------------------------------------------
(* search_rec                                                              *)

\* A plausible bug: only pointers to the target itself are followed.
ReachingExactly(t) == Sorted({e \in map : e.val = t})

\* The entries whose value is at most max_offset below the target.
LowestBase(t) == IF t < MaxOffset THEN 0 ELSE t - MaxOffset
Reaching(t) == Sorted({e \in map : LowestBase(t) <= e.val /\ e.val <= t})

CallFor(t) == [target |-> t, rest |-> Reaching(t)]
Top      == Last(stack)
Taken    == Head(Top.rest)

\* The chain through the entry taken, from the module on: the targets of the calls,
\* innermost first, are the addresses read.
ChainOf(e) == <<e.addr>> \o Reverse([j \in 1..Len(stack) - 1 |-> stack[j + 1].target])

CutShort(results) == Len(results) >= MaxResults \/ cancel

\* After each entry, and on entering a call, the limits are looked at.
Proceed(calls, results) ==
  /\ found' = results
  /\ stack' = IF CutShort(results) THEN <<>> ELSE calls
  /\ phase' = IF stack' = <<>> THEN "done" ELSE "search"
  /\ whole' = ~CutShort(results)

StartSearch ==
  /\ phase = "map" /\ (left = <<>> \/ cancel)
  /\ Proceed(<<CallFor(target)>>, <<>>)
  /\ UNCHANGED <<memory, target, left, map, cancel, pokes>>

Skipped == Append(Front(stack), [Top EXCEPT !.rest = Tail(@)])

\* An entry in a module ends a chain; any other is the target of a deeper call, as
\* long as the chain is not too long.
VisitStatic ==
  /\ phase = "search" /\ Top.rest # <<>> /\ Taken.addr \in Static
  /\ Proceed(Skipped, Append(found, ChainOf(Taken)))
  /\ UNCHANGED <<memory, target, left, map, cancel, pokes>>

VisitHeap ==
  /\ phase = "search" /\ Top.rest # <<>> /\ Taken.addr \notin Static
  /\ Proceed(IF Len(stack) < MaxDepth THEN Append(Skipped, CallFor(Taken.addr)) ELSE Skipped, found)
  /\ UNCHANGED <<memory, target, left, map, cancel, pokes>>

Return ==
  /\ phase = "search" /\ Top.rest = <<>>
  /\ Proceed(Front(stack), found)
  /\ UNCHANGED <<memory, target, left, map, cancel, pokes>>

\* The cancel button.
CancelSearch ==
  /\ phase # "done" /\ ~cancel
  /\ cancel' = TRUE
  /\ UNCHANGED <<memory, target, left, map, stack, found, phase, whole, pokes>>

Poke ==
  /\ phase = "map" /\ pokes < MaxPokes
  /\ \E a \in Aligned, v \in Values : memory' = [memory EXCEPT ![a] = v]
  /\ pokes' = pokes + 1
  /\ UNCHANGED <<target, left, map, stack, found, cancel, phase, whole>>

-----------------------------------------------------------------------------
PsInit ==
  /\ memory \in [{a \in Committed : a % 2 = 0} -> Values]
  /\ target \in Targets
  /\ left = Region /\ map = {} /\ stack = <<>> /\ found = <<>>
  /\ cancel = FALSE /\ phase = "map" /\ whole = TRUE /\ pokes = 0

PsNext ==
  \/ MapRegion \/ StartSearch \/ VisitStatic \/ VisitHeap \/ Return
  \/ CancelSearch \/ Poke

PsSpec == PsInit /\ [][PsNext]_psVars

-----------------------------------------------------------------------------
(* Properties.                                                             *)

Entry(a) == CHOOSE e \in map : e.addr = a

PsTypeOK ==
  /\ memory \in [Aligned -> Values] /\ target \in Targets
  /\ left \in Seq(SUBSET Committed)
  /\ \A e \in map : e.addr \in Aligned /\ e.val \in Values
  /\ \A j \in DOMAIN stack : stack[j].target \in 0..MaxAddress
  /\ Len(found) <= MaxResults
  /\ phase \in {"map", "search", "done"} /\ cancel \in BOOLEAN /\ whole \in BOOLEAN

\* What `resolve` computes with the offsets of a chain on the memory the map was made
\* of is the target, if every address it reads was in the map and is within reach of
\* the value read before.
Leads(chain) ==
  /\ \A j \in DOMAIN chain : \E e \in map : e.addr = chain[j]
  /\ chain[1] \in Static /\ \A j \in 2..Len(chain) : chain[j] \notin Static
  /\ LET next(j) == IF j = Len(chain) THEN target ELSE chain[j + 1]
     IN \A j \in DOMAIN chain : next(j) - Entry(chain[j]).val \in 0..MaxOffset

\* The chains there are, by length.
ChainsOfLength(n) == {c \in [1..n -> {e.addr : e \in map}] : Leads(c)}
Chains == UNION {ChainsOfLength(n) : n \in 1..MaxDepth}

\* Every result leads to the target in memory as it was read and no chain is found
\* twice; a search that met no limit finds every chain there is (search_rec).
ChainsAreExact ==
  /\ \A j \in DOMAIN found : found[j] \in Chains
  /\ Cardinality(ToSet(found)) = Len(found)
  /\ phase = "done" /\ whole => ToSet(found) = Chains
=============================================================================
