---------------------------- MODULE Conversions_proofs ----------------------------
(* Theorems about what the program computes rather than does. For every width *)
(* of value and mantissa and every history of writes and scans: which verdicts *)
(* on integers are right, and how far off the others can be (ScanPrecision).   *)
(* For every instruction that can be written: the bytes the encoder accepts it *)
(* as are what the processor executes, with exactly nine exceptions (Encoding).*)
(*                                                                             *)
(* The second part follows the bytes from the end: what push_rex, emit_rm and  *)
(* encode_mem write is what the decoder reads; what parse_mem makes of the     *)
(* terms of an address; what each opcode means; then each mnemonic.            *)
EXTENDS ScanPrecision, Encoding, WellFoundedInduction, FiniteSetTheorems, SequenceTheorems, TLAPS

-----------------------------------------------------------------------------
(* Rounding.                                                               *)

\* Powers of two are positive. (They count the subsets of a set.)
LEMMA PowerIsPositive ==
  ASSUME NEW k \in Nat
  PROVE  2^k \in Nat \ {0}
<1>1. IsFiniteSet(1..k) /\ Cardinality(1..k) = k
  BY FS_Interval
<1>2. IsFiniteSet(SUBSET (1..k)) /\ Cardinality(SUBSET (1..k)) = 2^k
  BY <1>1, FS_SUBSET
<1>3. Cardinality(SUBSET (1..k)) \in Nat
  BY <1>2, FS_CardinalityType
<1>4. Cardinality(SUBSET (1..k)) # 0
  BY <1>2, FS_EmptySet
<1> QED
  BY <1>2, <1>3, <1>4

\* A set of numbers that is not empty has a least one.
LEMMA LeastOne ==
  ASSUME NEW S \in SUBSET Nat, S # {}
  PROVE  \E m \in S : \A k \in S : m <= k
<1> DEFINE R == OpToRel(<, Nat)
<1>1. IsWellFoundedOn(R, Nat)
  BY NatLessThanWellFounded
<1>2. \A p : p \in R <=> p \in Nat \X Nat /\ p[1] < p[2]
  BY DEF OpToRel
<1> HIDE DEF R
<1>3. \E m \in S : \A k \in S : ~(<<k, m>> \in R)
  BY <1>1, WFMin
<1>4. PICK m \in S : \A k \in S : ~(k < m)
  BY <1>2, <1>3
<1> QED
  BY <1>4

\* The distance of doubles is one, for numbers that fit the mantissa.
LEMMA UlpIs ==
  ASSUME NEW n \in Value
  PROVE  /\ Ulp(n) \in Nat \ {0}
         /\ n < 2^MANTISSA => Ulp(n) = 1
<1> DEFINE S == {u \in Powers : n < u * 2^MANTISSA}
<1>1. WIDTH \in Nat /\ MANTISSA \in Nat
  BY PrecisionAssumption
<1>2. 2^MANTISSA \in Nat \ {0} /\ \A k \in 0..WIDTH : 2^k \in Nat \ {0}
  BY <1>1, PowerIsPositive
<1>3. Powers \subseteq Nat \ {0} /\ 2^WIDTH \in Powers /\ 2^0 \in Powers
  <2>1. 0 \in 0..WIDTH /\ WIDTH \in 0..WIDTH
    BY <1>1
  <2>2. 2^0 \in Powers /\ 2^WIDTH \in Powers
    BY <2>1, Zenon DEF Powers
  <2>3. \A u \in Powers : u \in Nat \ {0}
    BY <1>2, Zenon DEF Powers
  <2> QED
    BY <2>2, <2>3
<1>4. n \in Nat /\ n < 2^WIDTH * 2^MANTISSA
  <2> DEFINE a == 2^WIDTH
             b == 2^MANTISSA
  <2>1. a \in Nat \ {0} /\ b \in Nat \ {0} /\ n \in Nat /\ n < a
    BY <1>1, <1>2 DEF Value
  <2> HIDE DEF a, b
  <2>2. n < a * b
    BY <2>1
  <2> QED
    BY <2>1, <2>2 DEF a, b
<1>5. S \in SUBSET Nat /\ S # {}
  BY <1>3, <1>4
<1>6. \E u \in S : \A w \in S : u <= w
  <2> HIDE DEF S
  <2> QED
    BY <1>5, LeastOne
<1>7. \E u \in Powers : /\ n < u * 2^MANTISSA
                        /\ \A w \in Powers : n < w * 2^MANTISSA => u <= w
  BY <1>6
<1>8. /\ Ulp(n) \in Powers
      /\ \A w \in Powers : n < w * 2^MANTISSA => Ulp(n) <= w
  BY <1>7 DEF Ulp
<1>9. ASSUME n < 2^MANTISSA PROVE Ulp(n) <= 1
  <2>1. 2^0 = 1 /\ n < 1 * 2^MANTISSA
    BY <1>2, <1>9
  <2> QED
    BY <1>3, <1>8, <2>1
<1>10. Ulp(n) \in Nat \ {0}
  BY <1>3, <1>8
<1> QED
  BY <1>9, <1>10

\* A number is at most half the distance of doubles from its f64 (read_f64), and is one
\* if it fits the mantissa.
LEMMA Rounding ==
  ASSUME NEW n \in Value
  PROVE  /\ AsF64(n) \in Nat
         /\ 2 * (AsF64(n) - n) <= Ulp(n) /\ 2 * (n - AsF64(n)) <= Ulp(n)
         /\ n < 2^MANTISSA => AsF64(n) = n
<1> DEFINE u     == Ulp(n)
           below == (n \div u) * u
           rest  == n - below
<1>1. u \in Nat \ {0} /\ n \in Nat /\ (n < 2^MANTISSA => u = 1)
  BY UlpIs DEF Value
<1>2. below \in Nat /\ rest \in 0..(u - 1)
  <2> DEFINE q == n \div u
  <2>0. q \in Nat /\ n = u * q + (n % u) /\ (n % u) \in 0..(u - 1)
    <3> HIDE DEF u
    <3> QED
      BY <1>1
  <2> HIDE DEF u, q
  <2>1. q * u \in Nat /\ n - q * u \in 0..(u - 1)
    BY <1>1, <2>0
  <2> QED
    BY <2>1 DEF q
<1>3. \/ AsF64(n) = below /\ 2 * rest <= u
      \/ AsF64(n) = below + u /\ 2 * rest >= u
  <2>1. \/ AsF64(n) = below /\ (2 * rest < u \/ 2 * rest = u)
        \/ AsF64(n) = below + u /\ ~(2 * rest < u)
    BY DEF AsF64
  <2> HIDE DEF u, below
  <2> QED
    BY <1>1, <1>2, <2>1
<1>4. n = below + rest
  BY <1>1, <1>2
<1>5. u = 1 => AsF64(n) = below /\ rest = 0
  <2> HIDE DEF u, below, rest
  <2> QED
    BY <1>2, <1>3
<1> HIDE DEF below, rest
<1> QED
  BY <1>1, <1>2, <1>3, <1>4, <1>5

-----------------------------------------------------------------------------
(* The inductive invariant.                                                *)

\* A match that was kept remembers what it held at the last scan, as an f64.
Remembers == source = "match" /\ verdict.keep => last = AsF64(seen)

\* What the last scan was asked, and how far off its answer may be.
Judged ==
  /\ (verdict.kind \in ValueKind \/ verdict.exact \/ verdict.old < 2^MANTISSA) => verdict.right
  /\ ~verdict.right => /\ 2 * (now - verdict.old) <= Ulp(verdict.old)
                       /\ 2 * (verdict.old - now) <= Ulp(verdict.old)

PrecisionInv ==
  /\ now \in Value /\ seen \in Value /\ source \in {"match", "snapshot"}
  /\ verdict.keep \in BOOLEAN /\ Remembers /\ Judged

\* A previous value off by at most d misjudges only a value at most d from the right one.
LEMMA MisjudgedIsNear ==
  ASSUME NEW kind, NEW v \in Nat, NEW p \in Nat, NEW q \in Nat, NEW t1, NEW t2,
         Holds(kind, v, p, t1, t2) # Holds(kind, v, q, t1, t2)
  PROVE  /\ kind \notin ValueKind /\ p # q
         /\ v - q <= p - q \/ v - q <= 0
         /\ q - v <= q - p \/ q - v <= 0
<1>1. kind \in RelativeKind /\ kind \notin ValueKind
  BY DEF Holds, ValueKind, RelativeKind
<1>2. p # q
  OBVIOUS
<1>3. CASE kind \in {"Changed", "Unchanged"}
  <2>1. v = p \/ v = q
    BY <1>3 DEF Holds
  <2> QED
    BY <1>1, <1>2, <2>1
<1>4. CASE kind = "Increased"
  <2>1. (v > p) # (v > q)
    BY <1>4 DEF Holds
  <2> QED
    BY <1>1, <1>2, <2>1
<1>5. CASE kind = "Decreased"
  <2>1. (v < p) # (v < q)
    BY <1>5 DEF Holds
  <2> QED
    BY <1>1, <1>2, <2>1
<1> QED
  BY <1>1, <1>3, <1>4, <1>5 DEF RelativeKind

LEMMA InitPrecisionInv == PrInit => PrecisionInv
<1> SUFFICES ASSUME PrInit PROVE PrecisionInv
  OBVIOUS
<1>1. now \in Value /\ seen \in Value /\ source \in {"match", "snapshot"}
  BY DEF PrInit
<1>2. Remembers
  BY DEF PrInit, Remembers, Remembered
<1>3. verdict.keep \in BOOLEAN /\ verdict.right
  BY DEF PrInit, NoVerdict
<1> QED
  BY <1>1, <1>2, <1>3 DEF PrecisionInv, Judged

\* The process writes the address: nothing is being judged.
LEMMA WriteKeeps ==
  ASSUME PrecisionInv, NEW v \in Value, ProcessWrites(v)
  PROVE  PrecisionInv'
<1>1. now' = v /\ verdict.keep /\ UNCHANGED <<seen, last, source>>
  BY DEF ProcessWrites
<1>2. verdict'.keep \in BOOLEAN /\ verdict'.right
  BY DEF ProcessWrites, NoVerdict
<1>3. Remembers'
  BY <1>1 DEF PrecisionInv, Remembers
<1> QED
  BY <1>1, <1>2, <1>3 DEF PrecisionInv, Judged

\* A next scan, of the matches or of the snapshot.
LEMMA ScanKeeps ==
  ASSUME PrecisionInv, NEW kind, NEW t1, NEW t2, NextScan(kind, t1, t2)
  PROVE  PrecisionInv'
<1> DEFINE keep  == IF source = "snapshot" THEN ComparePair(kind, now, t1, t2)
                    ELSE Compare(kind, now, t1, t2)
           right == keep <=> Holds(kind, now, seen, t1, t2)
           exact == source = "snapshot" \/ last = seen
<1>1. /\ verdict.keep /\ seen' = now /\ source' = "match" /\ now' = now
      /\ verdict' = [kind |-> kind, keep |-> keep, right |-> right, exact |-> exact, old |-> seen]
      /\ last' = IF keep THEN Remembered(now) ELSE last
  BY DEF NextScan
<1>2. keep \in BOOLEAN
  BY DEF ComparePair, Compare, Holds
<1>3. Remembers'
  BY <1>1 DEF Remembers, Remembered
<1>4. now \in Value /\ seen \in Value /\ now \in Nat /\ seen \in Nat
  BY DEF PrecisionInv, Value
<1>5. CASE right
  BY <1>1, <1>2, <1>3, <1>4, <1>5 DEF PrecisionInv, Judged
<1>6. CASE ~right
  <2>1. source # "snapshot" /\ Holds(kind, now, last, t1, t2) # Holds(kind, now, seen, t1, t2)
    BY <1>6 DEF ComparePair, Compare
  <2> DEFINE p == AsF64(seen)
  <2>2. /\ source = "match" /\ last = p
        /\ p \in Nat /\ 2 * (p - seen) <= Ulp(seen) /\ 2 * (seen - p) <= Ulp(seen)
        /\ seen < 2^MANTISSA => p = seen
    BY <1>1, <1>4, <2>1, Rounding DEF PrecisionInv, Remembers
  <2> HIDE DEF p
  <2>3. /\ kind \notin ValueKind /\ p # seen
        /\ now - seen <= p - seen \/ now - seen <= 0
        /\ seen - now <= seen - p \/ seen - now <= 0
    BY <1>4, <2>1, <2>2, MisjudgedIsNear
  <2>4. 2 * (now - seen) <= Ulp(seen) /\ 2 * (seen - now) <= Ulp(seen)
    BY <1>4, <2>2, <2>3, UlpIs
  <2>5. /\ verdict'.kind \notin ValueKind /\ ~verdict'.exact /\ verdict'.old = seen
        /\ ~(seen < 2^MANTISSA)
    BY <1>1, <2>1, <2>2, <2>3
  <2>6. Judged'
    BY <1>1, <2>4, <2>5 DEF Judged
  <2> HIDE DEF keep
  <2> QED
    BY <1>1, <1>2, <1>3, <1>4, <2>6 DEF PrecisionInv
<1> QED
  BY <1>5, <1>6

LEMMA PrecisionInvariance == PrSpec => []PrecisionInv
<1>1. PrecisionInv /\ [PrNext]_prVars => PrecisionInv'
  <2> SUFFICES ASSUME PrecisionInv, [PrNext]_prVars PROVE PrecisionInv'
    OBVIOUS
  <2>1. CASE UNCHANGED prVars
    BY <2>1 DEF prVars, PrecisionInv, Remembers, Judged
  <2> QED
    BY <2>1, WriteKeeps, ScanKeeps DEF PrNext
<1> QED
  BY <1>1, InitPrecisionInv, PTL DEF PrSpec

\* compare of an integer with a number is exact on its whole width, and so is compare and
\* compare_pair with a previous value that is a double, whatever the widths.
THEOREM ExactComparisons == PrSpec => []ExactWhenRepresentable
<1>1. PrecisionInv => ExactWhenRepresentable
  BY DEF PrecisionInv, Judged, ExactWhenRepresentable
<1> QED
  BY <1>1, PrecisionInvariance, PTL

\* A next scan that judges wrongly, Match.last being an f64, does so of a value at most half
\* the distance of doubles from the previous one, however often values are written, kept
\* and rounded again.
THEOREM ErrorsAreSmall == PrSpec => []ErrorIsSmall
<1>1. PrecisionInv => ErrorIsSmall
  BY DEF PrecisionInv, Judged, ErrorIsSmall
<1> QED
  BY <1>1, PrecisionInvariance, PTL

\* In particular no scan of an integer that fits the mantissa is ever wrong: of 53 bits in
\* the code, so of every type of 8, 16 and 32 bits.
THEOREM SmallIntegersAreExact ==
  PrSpec => [](verdict.old < 2^MANTISSA => verdict.right)
<1>1. PrecisionInv => (verdict.old < 2^MANTISSA => verdict.right)
  BY DEF PrecisionInv, Judged
<1> QED
  BY <1>1, PrecisionInvariance, PTL

-----------------------------------------------------------------------------
(* The encoder: prefixes.                                                  *)

\* One byte before a sequence.
LEMMA OneAhead ==
  ASSUME NEW x \in Nat, NEW t \in Seq(Nat)
  PROVE  /\ <<x>> \o t \in Seq(Nat)
         /\ Len(<<x>> \o t) = Len(t) + 1
         /\ (<<x>> \o t)[1] = x
         /\ Cpu!Drop(<<x>> \o t, 1) = t
  BY DEF Cpu!Drop

\* Two bytes before a sequence.
LEMMA TwoAhead ==
  ASSUME NEW x \in Nat, NEW y \in Nat, NEW t \in Seq(Nat)
  PROVE  /\ <<x, y>> \o t \in Seq(Nat)
         /\ Len(<<x, y>> \o t) = Len(t) + 2
         /\ (<<x, y>> \o t)[1] = x
         /\ (<<x, y>> \o t)[2] = y
         /\ Cpu!Drop(<<x, y>> \o t, 2) = t
  BY DEF Cpu!Drop

\* Nothing before, and nothing after, a sequence.
LEMMA ConcatNone ==
  ASSUME NEW t \in Seq(Nat)
  PROVE  <<>> \o t = t /\ t \o <<>> = t /\ Cpu!Drop(t, 0) = t
  BY DEF Cpu!Drop

\* What is behind a sequence.
LEMMA Behind ==
  ASSUME NEW a \in Seq(Nat), NEW t \in Seq(Nat)
  PROVE  Cpu!Drop(a \o t, Len(a)) = t
  BY DEF Cpu!Drop

\* The legacy prefix of an instruction, or none.
LegacyPrefixes == {<<>>, << 102 >>, << 242 >>, << 243 >>}
PrefixByte(p) == IF p = <<>> THEN 0 ELSE p[1]

\* The decoder finds the legacy prefix and what follows it.
LEMMA LegacyPrefix ==
  ASSUME NEW p \in LegacyPrefixes, NEW t \in Seq(Nat), t[1] \notin {102, 242, 243}
  PROVE  /\ Cpu!PastLegacy(p \o t) = t
         /\ Cpu!Legacy(p \o t) = PrefixByte(p)
<1>1. CASE p = <<>>
  BY <1>1, ConcatNone DEF PrefixByte, Cpu!PastLegacy, Cpu!Legacy, Cpu!HasLegacy
<1>2. ASSUME NEW x \in {102, 242, 243}, p = <<x>>
      PROVE  /\ Cpu!PastLegacy(p \o t) = t
             /\ Cpu!Legacy(p \o t) = PrefixByte(p)
  <2>1. (p \o t)[1] = x /\ Cpu!Drop(p \o t, 1) = t
    BY <1>2, OneAhead
  <2>2. p # <<>> /\ p[1] = x
    BY <1>2
  <2> QED
    BY <2>1, <2>2 DEF PrefixByte, Cpu!PastLegacy, Cpu!Legacy, Cpu!HasLegacy
<1> QED
  BY <1>1, <1>2 DEF LegacyPrefixes

\* The REX prefix with the four bits.
RexByte(w, r, x, b) == 64 + (IF w THEN 8 ELSE 0) + 4 * r + 2 * x + b

\* The four low bits of the prefix, as digits.
LEMMA Bits ==
  ASSUME NEW h \in {0, 1}, NEW r \in {0, 1}, NEW x \in {0, 1}, NEW b \in {0, 1},
         NEW n \in Int, n = 64 + 8 * h + 4 * r + 2 * x + b
  PROVE  /\ (n \div 8) % 2 = h
         /\ (n \div 4) % 2 = r
         /\ (n \div 2) % 2 = x
         /\ n % 2 = b
<1>1. n \div 8 = 8 + h
  BY SMT
<1>2. n \div 4 = 16 + 2 * h + r
  BY SMT
<1>3. n \div 2 = 32 + 4 * h + 2 * r + x
  BY SMT
<1> QED
  BY <1>1, <1>2, <1>3, SMT

\* The four low bits of the prefix, as the decoder asks for them.
LEMMA RexBits ==
  ASSUME NEW w \in BOOLEAN, NEW r \in {0, 1}, NEW x \in {0, 1}, NEW b \in {0, 1}
  PROVE  /\ RexByte(w, r, x, b) \in 64..79
         /\ Cpu!Bit(RexByte(w, r, x, b), 3) <=> w
         /\ Cpu!Bit(RexByte(w, r, x, b), 2) <=> r = 1
         /\ Cpu!Bit(RexByte(w, r, x, b), 1) <=> x = 1
         /\ Cpu!Bit(RexByte(w, r, x, b), 0) <=> b = 1
<1> DEFINE n == RexByte(w, r, x, b)
           h == IF w THEN 1 ELSE 0
<1>1. n = 64 + 8 * h + 4 * r + 2 * x + b /\ h \in {0, 1} /\ n \in 64..79 /\ (h = 1 <=> w)
  BY SMT DEF RexByte
<1> HIDE DEF n, h
<1>2. /\ (n \div 8) % 2 = h
      /\ (n \div 4) % 2 = r
      /\ (n \div 2) % 2 = x
      /\ n % 2 = b
  BY <1>1, Bits, SMT
<1>3. /\ 2^0 = 1 /\ 2^1 = 2 /\ 2^2 = 4 /\ 2^3 = 8
      /\ n \div 1 = n
  BY <1>1, SMT
<1>4. /\ Cpu!Bit(n, 3) <=> h = 1
      /\ Cpu!Bit(n, 2) <=> r = 1
      /\ Cpu!Bit(n, 1) <=> x = 1
      /\ Cpu!Bit(n, 0) <=> b = 1
  BY <1>2, <1>3, Zenon DEF Cpu!Bit
<1> QED
  BY <1>1, <1>4 DEF n

\* Without a prefix all bits are clear.
LEMMA NoRexBits == \A i \in 0..3 : ~Cpu!Bit(0, i)
<1>1. 2^0 = 1 /\ 2^1 = 2 /\ 2^2 = 4 /\ 2^3 = 8
  BY SMT
<1>2. ~Cpu!Bit(0, 0) /\ ~Cpu!Bit(0, 1) /\ ~Cpu!Bit(0, 2) /\ ~Cpu!Bit(0, 3)
  BY <1>1, SMT DEF Cpu!Bit
<1> QED
  BY <1>2, SMT

\* A byte that is not a prefix.
NotPrefix(n) == n \notin {102, 242, 243} /\ n \notin 64..79

\* The decoder sees legacy prefix p, the bits w, r, x and b, and t behind them.
PrefixesRead(s, p, w, r, x, b, t) ==
  /\ Cpu!Legacy(s) = PrefixByte(p)
  /\ Cpu!PastRex(s) = t
  /\ Cpu!W(s) <=> w
  /\ Cpu!Ext(Cpu!Bit(Cpu!RexOf(s), 2)) = 8 * r
  /\ Cpu!Ext(Cpu!Bit(Cpu!RexOf(s), 1)) = 8 * x
  /\ Cpu!Ext(Cpu!Bit(Cpu!RexOf(s), 0)) = 8 * b
  /\ Cpu!RexOf(s) = 0 <=> ~w /\ r + x + b = 0

\* push_rex: the prefixes written before t are the prefixes that are read.
LEMMA RexPrefix ==
  ASSUME NEW w \in BOOLEAN, NEW r \in {0, 1}, NEW x \in {0, 1}, NEW b \in {0, 1},
         NEW p \in LegacyPrefixes, NEW t \in Seq(Nat), NotPrefix(t[1])
  PROVE  PrefixesRead(p \o (Rex(w, r, x, b) \o t), p, w, r, x, b, t)
<1> DEFINE u == Rex(w, r, x, b) \o t
           s == p \o u
           c == RexByte(w, r, x, b)
<1>0. t[1] \notin {102, 242, 243} /\ t[1] \notin 64..79
  BY DEF NotPrefix
<1>1. CASE w \/ r + x + b > 0
  <2>1. Rex(w, r, x, b) = <<c>>
    <3>1. Rex(w, r, x, b) = <<64 + (IF w THEN 8 ELSE 0) + 4 * r + 2 * x + b>>
      BY <1>1 DEF Rex
    <3> QED
      BY <3>1 DEF RexByte
  <2>0. c \in 64..79
    BY SMT DEF RexByte
  <2> HIDE DEF c
  <2>2. c \in 64..79 /\ c \notin {102, 242, 243} /\ c # 0 /\ c \in Nat
    BY <2>0, SMT
  <2>3. u \in Seq(Nat) /\ u[1] = c /\ Cpu!Drop(u, 1) = t
    BY <2>1, <2>2, OneAhead
  <2> HIDE DEF u
  <2>a. u[1] \notin {102, 242, 243} /\ u[1] \in 64..79
    BY <2>2, <2>3, Zenon
  <2>4. Cpu!PastLegacy(s) = u /\ Cpu!Legacy(s) = PrefixByte(p)
    BY <2>a, <2>3, LegacyPrefix
  <2> HIDE DEF s
  <2>5. Cpu!RexOf(s) = c /\ Cpu!PastRex(s) = t
    BY <2>2, <2>3, <2>4 DEF Cpu!RexOf, Cpu!PastRex
  <2>6. c # 0
    BY <2>2
  <2>7. /\ Cpu!Bit(c, 3) <=> w
        /\ Cpu!Bit(c, 2) <=> r = 1
        /\ Cpu!Bit(c, 1) <=> x = 1
        /\ Cpu!Bit(c, 0) <=> b = 1
    BY RexBits DEF c
  <2>8. Cpu!W(s) <=> w
    BY <2>5, <2>7 DEF Cpu!W
  <2>9. /\ Cpu!Ext(Cpu!Bit(Cpu!RexOf(s), 2)) = 8 * r
        /\ Cpu!Ext(Cpu!Bit(Cpu!RexOf(s), 1)) = 8 * x
        /\ Cpu!Ext(Cpu!Bit(Cpu!RexOf(s), 0)) = 8 * b
    <3>1. Cpu!Ext(Cpu!Bit(c, 2)) = 8 * r
      BY <2>7 DEF Cpu!Ext
    <3>2. Cpu!Ext(Cpu!Bit(c, 1)) = 8 * x
      BY <2>7 DEF Cpu!Ext
    <3>3. Cpu!Ext(Cpu!Bit(c, 0)) = 8 * b
      BY <2>7 DEF Cpu!Ext
    <3> QED
      BY <2>5, <3>1, <3>2, <3>3
  <2> QED
    BY <1>1, <2>4, <2>5, <2>6, <2>8, <2>9 DEF s, u, PrefixesRead
<1>2. CASE ~(w \/ r + x + b > 0)
  <2>0. Rex(w, r, x, b) = <<>> /\ ~w
    BY <1>2 DEF Rex
  <2>1. Rex(w, r, x, b) = <<>> /\ ~w /\ r = 0 /\ x = 0 /\ b = 0
    BY <1>2, <2>0, SMT
  <2>2. u = t
    BY <2>1, ConcatNone
  <2> HIDE DEF u
  <2>3. Cpu!PastLegacy(s) = t /\ Cpu!Legacy(s) = PrefixByte(p)
    BY <1>0, <2>2, LegacyPrefix
  <2> HIDE DEF s
  <2>4. Cpu!RexOf(s) = 0 /\ Cpu!PastRex(s) = t
    BY <1>0, <2>3 DEF Cpu!RexOf, Cpu!PastRex
  <2>5. Cpu!W(s) <=> w
    BY <2>1, <2>4, NoRexBits DEF Cpu!W
  <2>6. /\ Cpu!Ext(Cpu!Bit(Cpu!RexOf(s), 2)) = 8 * r
        /\ Cpu!Ext(Cpu!Bit(Cpu!RexOf(s), 1)) = 8 * x
        /\ Cpu!Ext(Cpu!Bit(Cpu!RexOf(s), 0)) = 8 * b
    BY <2>1, <2>4, NoRexBits DEF Cpu!Ext
  <2> QED
    BY <2>1, <2>3, <2>4, <2>5, <2>6 DEF s, u, PrefixesRead
<1> QED
  BY <1>1, <1>2

-----------------------------------------------------------------------------
(* Opcode, ModRM and displacement.                                         *)

\* A register number is its low three bits and its REX bit.
LEMMA RegParts ==
  ASSUME NEW n \in RegNum
  PROVE  Low(n) \in 0..7 /\ High(n) \in {0, 1} /\ n = Low(n) + 8 * High(n)
  BY SMT DEF RegNum, Low, High

\* A ModRM or SIB byte has three fields.
LEMMA ModRmParts ==
  ASSUME NEW a \in 0..3, NEW b \in 0..7, NEW c \in 0..7
  PROVE  LET n == 64 * a + 8 * b + c
         IN  n \in Nat /\ n \div 64 = a /\ (n \div 8) % 8 = b /\ n % 8 = c
<1> DEFINE n == 64 * a + 8 * b + c
<1>1. n \div 8 = 8 * a + b
  BY SMT
<1> QED
  BY <1>1, SMT

\* The decoder finds the opcode behind the prefixes.
LEMMA OpcodeRead ==
  ASSUME NEW s, NEW t \in Seq(Nat), NEW op \in Nat
  PROVE  /\ Cpu!PastRex(s) = <<op>> \o t /\ op # 15 =>
              ~Cpu!TwoByte(s) /\ Cpu!Opcode(s) = op /\ Cpu!Body(s) = t
         /\ Cpu!PastRex(s) = <<15, op>> \o t =>
              Cpu!TwoByte(s) /\ Cpu!Opcode(s) = op /\ Cpu!Body(s) = t
<1>1. ASSUME Cpu!PastRex(s) = <<op>> \o t, op # 15
      PROVE  ~Cpu!TwoByte(s) /\ Cpu!Opcode(s) = op /\ Cpu!Body(s) = t
  <2>1. (<<op>> \o t)[1] = op /\ Cpu!Drop(<<op>> \o t, 1) = t
    BY OneAhead
  <2>2. ~Cpu!TwoByte(s)
    BY <1>1, <2>1 DEF Cpu!TwoByte
  <2> QED
    BY <1>1, <2>1, <2>2 DEF Cpu!Opcode, Cpu!Body
<1>2. ASSUME Cpu!PastRex(s) = <<15, op>> \o t
      PROVE  Cpu!TwoByte(s) /\ Cpu!Opcode(s) = op /\ Cpu!Body(s) = t
  <2>1. /\ (<<15, op>> \o t)[1] = 15 /\ (<<15, op>> \o t)[2] = op
        /\ Cpu!Drop(<<15, op>> \o t, 2) = t
    BY TwoAhead
  <2>2. Cpu!TwoByte(s)
    BY <1>2, <2>1 DEF Cpu!TwoByte
  <2> QED
    BY <1>2, <2>1, <2>2 DEF Cpu!Opcode, Cpu!Body
<1> QED
  BY <1>1, <1>2

\* The decoder sees two registers, of which these are the low bits.
RegistersRead(s, q, low, rest) ==
  Cpu!Digit(s) = q /\ Cpu!RmOf(s) = low /\ Cpu!IsReg(s) /\ Cpu!Rest(s) = rest

\* ModRM with mod 3 is read as two registers.
LEMMA RegisterRead ==
  ASSUME NEW s, NEW rest \in Seq(Nat), NEW q \in 0..7, NEW low \in 0..7,
         Cpu!Body(s) = <<192 + 8 * q + low>> \o rest
  PROVE  RegistersRead(s, q, low, rest)
<1> DEFINE n == 192 + 8 * q + low
<1>1. n \in Nat /\ n \div 64 = 3 /\ (n \div 8) % 8 = q /\ n % 8 = low
  BY ModRmParts
<1> HIDE DEF n
<1>2. Cpu!Body(s)[1] = n /\ Cpu!Drop(Cpu!Body(s), 1) = rest
  BY <1>1, OneAhead DEF n
<1>3. Cpu!Digit(s) = q /\ Cpu!RmOf(s) = low /\ Cpu!IsReg(s)
  BY <1>1, <1>2 DEF Cpu!Digit, Cpu!RmOf, Cpu!IsReg, Cpu!ModOf
<1>4. Cpu!AfterSib(s) = rest
  BY <1>2, <1>3 DEF Cpu!AfterSib, Cpu!HasSib
<1> QED
  BY <1>3, <1>4, ConcatNone DEF Cpu!Rest, Cpu!DispSize, RegistersRead

-----------------------------------------------------------------------------

\* What parse_mem makes of an address that is accepted.
MemForm == [base : RegNum, index : RegNum \cup {NoReg}, scale : Nat, disp : Int]

\* The two bits of a scale.
LEMMA ScaleBits ==
  ASSUME NEW s \in {1, 2, 4, 8}
  PROVE  Log2(s) \in 0..3 /\ 2^Log2(s) = s
<1>1. 2^0 = 1 /\ 2^1 = 2 /\ 2^2 = 4 /\ 2^3 = 8
  BY SMT
<1>2. \E i \in 0..3 : 2^i = s
  BY <1>1, SMT
<1> QED
  BY <1>2 DEF Log2

\* A displacement of one byte is read as the number it was.
LEMMA Le1 ==
  ASSUME NEW d \in Int, d \in -128..127
  PROVE  /\ Le(d, 1) = <<d % 256>>
         /\ d % 256 \in 0..255
         /\ Cpu!SignedByte(d % 256) = d
<1>1. 256^0 = 1 /\ d \div 1 = d
  BY SMT
<1>2. Byte(d, 0) = d % 256
  BY <1>1 DEF Byte
<1>3. Le(d, 1) = <<Byte(d, 0)>>
  BY DEF Le
<1>4. d % 256 = (IF d >= 0 THEN d ELSE d + 256)
  BY SMT
<1> QED
  BY <1>2, <1>3, <1>4, SMT DEF Cpu!SignedByte

\* A sequence of four bytes.
LEMMA Four ==
  ASSUME NEW x \in Nat, NEW y \in Nat, NEW z \in Nat, NEW u \in Nat
  PROVE  /\ <<x, y, z, u>> \in Seq(Nat) /\ Len(<<x, y, z, u>>) = 4
         /\ <<x, y, z, u>>[1] = x /\ <<x, y, z, u>>[2] = y
         /\ <<x, y, z, u>>[3] = z /\ <<x, y, z, u>>[4] = u
  BY SMT

\* A displacement of four bytes, as a sum.
LEMMA Signed32Is ==
  ASSUME NEW a
  PROVE  Cpu!Signed32(a) = a[1] + 256 * a[2] + 65536 * a[3] + 16777216 * Cpu!SignedByte(a[4])
  BY SMT DEF Cpu!Signed32

\* A displacement of four bytes is read as the number it was.
LEMMA Le4 ==
  ASSUME NEW d \in Int, -2147483648 <= d, d <= 2147483647
  PROVE  /\ Le(d, 4) \in Seq(Nat)
         /\ Len(Le(d, 4)) = 4
         /\ Cpu!Signed32(Le(d, 4)) = d
<1> DEFINE r0 == d % 256                q1 == d \div 256
           r1 == q1 % 256               q2 == q1 \div 256
           r2 == q2 % 256               q3 == q2 \div 256
           r3 == q3 % 256               q4 == q3 \div 256
<1>1. /\ r0 \in 0..255 /\ q1 \in Int /\ d = 256 * q1 + r0
      /\ r1 \in 0..255 /\ q2 \in Int /\ q1 = 256 * q2 + r1
      /\ r2 \in 0..255 /\ q3 \in Int /\ q2 = 256 * q3 + r2
      /\ r3 \in 0..255 /\ q4 \in Int /\ q3 = 256 * q4 + r3
  <2>1. \A n \in Int : n % 256 \in 0..255 /\ n \div 256 \in Int /\ n = 256 * (n \div 256) + (n % 256)
    BY SMT
  <2> QED
    BY <2>1, SMT
<1>2. /\ 256^0 = 1 /\ 256^1 = 256 /\ 256^2 = 65536 /\ 256^3 = 16777216
      /\ d \div 1 = d /\ d \div 65536 = q2 /\ d \div 16777216 = q3
  BY SMT
<1>3. /\ Byte(d, 0) = r0 /\ Byte(d, 1) = r1
      /\ Byte(d, 2) = r2 /\ Byte(d, 3) = r3
  BY <1>2, SMT DEF Byte
<1>4. Le(d, 4) = <<Byte(d, 0), Byte(d, 1), Byte(d, 2), Byte(d, 3)>>
  BY SMT DEF Le
<1>5. Le(d, 4) = <<r0, r1, r2, r3>>
  BY <1>3, <1>4, SMT
<1> HIDE DEF r0, r1, r2, r3, q1, q2, q3, q4
<1>6. d = r0 + 256 * r1 + 65536 * r2 + 16777216 * q3
  BY <1>1, SMT
<1>7. q3 >= -128 /\ q3 <= 127
  <2>1. q3 >= -128
    BY <1>1, <1>6, SMT
  <2>2. q3 <= 127
    BY <1>1, <1>6, SMT
  <2> QED
    BY <2>1, <2>2
<1>8. q4 \in {-1, 0}
  BY <1>1, <1>7, SMT
<1>9. Cpu!SignedByte(r3) = q3
  BY <1>1, <1>7, <1>8, SMT DEF Cpu!SignedByte
<1>10. r0 + 256 * r1 + 65536 * r2 + 16777216 * Cpu!SignedByte(r3) = d
  BY <1>6, <1>9, SMT
<1>11. r0 \in Nat /\ r1 \in Nat /\ r2 \in Nat /\ r3 \in Nat
  BY <1>1, SMT
<1> DEFINE f == <<r0, r1, r2, r3>>
<1>12. /\ f \in Seq(Nat) /\ Len(f) = 4
       /\ f[1] = r0 /\ f[2] = r1 /\ f[3] = r2 /\ f[4] = r3
  BY <1>11, Four, SMT
<1> HIDE DEF f
<1>15. Le(d, 4) = f
  BY <1>5 DEF f
<1>13. r0 \in Int /\ r1 \in Int /\ r2 \in Int /\ r3 \in Int
  BY <1>11, SMT
<1>14. Cpu!Signed32(f) = r0 + 256 * r1 + 65536 * r2 + 16777216 * Cpu!SignedByte(r3)
  BY <1>12, Signed32Is, SMT
<1> QED
  BY <1>10, <1>12, <1>14, <1>15, SMT

\* What is in the first of two sequences.
LEMMA InFirst ==
  ASSUME NEW S, NEW a \in Seq(S), NEW t \in Seq(S), NEW i \in 1..Len(a)
  PROVE  (a \o t)[i] = a[i]
  BY ConcatProperties

\* The bytes behind a displacement do not count.
LEMMA SameSigned32 ==
  ASSUME NEW a \in Seq(Nat), Len(a) = 4, NEW t \in Seq(Nat)
  PROVE  Cpu!Signed32(a \o t) = Cpu!Signed32(a)
<1>1. \A i \in 1..4 : (a \o t)[i] = a[i]
  <2> SUFFICES ASSUME NEW i \in 1..4 PROVE (a \o t)[i] = a[i]
    OBVIOUS
  <2>1. i \in 1..Len(a)
    OBVIOUS
  <2> QED
    BY <2>1, InFirst
<1> DEFINE b == a \o t
<1> HIDE DEF b
<1>4. b[1] = a[1] /\ b[2] = a[2] /\ b[3] = a[3] /\ b[4] = a[4]
  <2>1. 1 \in 1..4 /\ 2 \in 1..4 /\ 3 \in 1..4 /\ 4 \in 1..4
    BY SMT
  <2> QED
    BY <1>1, <2>1, Zenon DEF b
<1>3. Cpu!Signed32(a) = a[1] + 256 * a[2] + 65536 * a[3] + 16777216 * Cpu!SignedByte(a[4])
  BY Signed32Is, SMT
<1>5. Cpu!Signed32(b) = b[1] + 256 * b[2] + 65536 * b[3] + 16777216 * Cpu!SignedByte(b[4])
  BY Signed32Is, SMT
<1>6. Cpu!Signed32(b) = Cpu!Signed32(a)
  BY <1>3, <1>4, <1>5, SMT
<1> QED
  BY <1>6 DEF b

-----------------------------------------------------------------------------
(* An address in the form that parse_mem makes.                            *)

\* The address an operand in memory stands for, once parsed.
MemAddress(m) ==
  [coef   |-> [r \in RegNum |-> (IF r = m.base THEN 1 ELSE 0)
                                  + (IF m.index # NoReg /\ r = m.index THEN m.scale ELSE 0)],
   disp   |-> m.disp,
   rip    |-> FALSE,
   narrow |-> FALSE]

\* The REX bit of the index, and the low bits of ModRM.
IndexBit(m) == IF m.index = NoReg THEN 0 ELSE High(m.index)
RmField(m)  == IF NeedSib(m) THEN 4 ELSE Low(m.base)

\* The field mod, by the displacement.
LEMMA ModIs ==
  ASSUME NEW m \in MemForm
  PROVE  /\ Mod(m) \in 0..2
         /\ Mod(m) = 0 => m.disp = 0 /\ Low(m.base) # 5
         /\ Mod(m) = 1 => m.disp \in -128..127
  BY DEF Mod, MemForm

\* The displacement that is written is the one of the form.
LEMMA DispIs ==
  ASSUME NEW m \in MemForm, MemOk(m)
  PROVE  /\ Disp(m) \in Seq(Nat)
         /\ Mod(m) = 0 => Disp(m) = <<>>
         /\ Mod(m) = 1 => Len(Disp(m)) = 1 /\ Cpu!SignedByte(Disp(m)[1]) = m.disp
         /\ Mod(m) = 2 => Len(Disp(m)) = 4 /\ Cpu!Signed32(Disp(m)) = m.disp
<1>1. PICK d \in Int : d = m.disp
  BY DEF MemForm
<1>2. <<0, 1, 4>>[0 + 1] = 0 /\ <<0, 1, 4>>[1 + 1] = 1 /\ <<0, 1, 4>>[2 + 1] = 4
  BY SMT
<1>3. CASE Mod(m) = 0
  <2>1. Disp(m) = Le(d, 0)
    BY <1>1, <1>2, <1>3 DEF Disp
  <2>2. Le(d, 0) = <<>>
    BY DEF Le
  <2>3. Disp(m) = <<>> /\ <<>> \in Seq(Nat)
    BY <2>1, <2>2, EmptySeq
  <2> QED
    BY <1>3, <2>3
<1>4. CASE Mod(m) = 1
  <2>1. Disp(m) = Le(d, 1)
    BY <1>1, <1>2, <1>4 DEF Disp
  <2>2. d \in -128..127
    BY <1>1, <1>4, ModIs
  <2> DEFINE b == d % 256
  <2>3. Le(d, 1) = <<b>> /\ b \in 0..255 /\ Cpu!SignedByte(b) = d
    BY <2>2, Le1
  <2> HIDE DEF b
  <2>4. <<b>> \in Seq(Nat) /\ Len(<<b>>) = 1 /\ <<b>>[1] = b
    BY <2>3
  <2>5. Disp(m) = <<b>>
    BY <2>1, <2>3
  <2> QED
    BY <1>1, <1>4, <2>3, <2>4, <2>5
<1>5. CASE Mod(m) = 2
  <2>1. Disp(m) = Le(d, 4)
    BY <1>1, <1>2, <1>5 DEF Disp
  <2>2. -2147483648 <= d /\ d <= 2147483647
    <3>1. m.disp \in (-Disp32 - 1)..Disp32
      BY DEF MemOk
    <3>2. Disp32 \in Int
      BY DEF Disp32
    <3>3. -Disp32 - 1 <= d /\ d <= Disp32
      BY <1>1, <3>1, <3>2
    <3> QED
      BY <3>3, SMT DEF Disp32
  <2>3. /\ Le(d, 4) \in Seq(Nat) /\ Len(Le(d, 4)) = 4
        /\ Cpu!Signed32(Le(d, 4)) = d
    BY <2>2, Le4, SMT
  <2> QED
    BY <1>1, <1>5, <2>1, <2>3, SMT
<1> QED
  BY <1>3, <1>4, <1>5, ModIs, SMT

\* The SIB byte is read back.
LEMMA SibIs ==
  ASSUME NEW m \in MemForm, MemOk(m), NeedSib(m)
  PROVE  \E n \in Nat :
           /\ Sib(m) = <<n>>
           /\ n % 8 = Low(m.base)
           /\ (n \div 8) % 8 = (IF m.index = NoReg THEN 4 ELSE Low(m.index))
           /\ m.index # NoReg => 2^(n \div 64) = m.scale
<1>1. m.base \in RegNum /\ (m.index # NoReg => m.index \in RegNum)
  BY DEF MemForm
<1>2. Low(m.base) \in 0..7
  BY <1>1, RegParts
<1>3. CASE m.index = NoReg
  <2> DEFINE n == 8 * 4 + Low(m.base)
  <2>1. Sib(m) = <<n>>
    BY <1>3 DEF Sib
  <2>2. n \in Nat /\ n % 8 = Low(m.base) /\ (n \div 8) % 8 = 4
    BY <1>2, SMT
  <2> HIDE DEF n
  <2> QED
    BY <1>3, <2>1, <2>2
<1>4. CASE m.index # NoReg
  <2> DEFINE l == Log2(m.scale)
             n == 64 * l + 8 * Low(m.index) + Low(m.base)
  <2>1. Sib(m) = <<64 * Log2(m.scale) + 8 * Low(m.index) + Low(m.base)>>
    BY <1>4, Zenon DEF Sib
  <2>2. m.scale \in {1, 2, 4, 8}
    BY <1>4 DEF MemOk
  <2>3. l \in 0..3 /\ 2^l = m.scale
    BY <2>2, ScaleBits
  <2>4. Low(m.index) \in 0..7
    BY <1>1, <1>4, RegParts
  <2> HIDE DEF l
  <2>5. n \in Nat /\ n \div 64 = l /\ n % 8 = Low(m.base) /\ (n \div 8) % 8 = Low(m.index)
    <3>1. PICK c \in 0..7 : c = Low(m.base)
      BY <1>2
    <3>2. PICK b \in 0..7 : b = Low(m.index)
      BY <2>4
    <3>3. PICK a \in 0..3 : a = l
      BY <2>3
    <3>4. n = 64 * a + 8 * b + c
      BY <3>1, <3>2, <3>3
    <3>5. /\ 64 * a + 8 * b + c \in Nat /\ (64 * a + 8 * b + c) \div 64 = a
          /\ ((64 * a + 8 * b + c) \div 8) % 8 = b /\ (64 * a + 8 * b + c) % 8 = c
      BY ModRmParts
    <3> HIDE DEF n
    <3> QED
      BY <3>1, <3>2, <3>3, <3>4, <3>5, Zenon
  <2> HIDE DEF n
  <2> QED
    BY <1>4, <2>1, <2>3, <2>5 DEF n, l
<1> QED
  BY <1>3, <1>4

\* The fields of the ModRM byte of an address.
LEMMA ModRmOf ==
  ASSUME NEW m \in MemForm, NEW q \in 0..7
  PROVE  LET n == 64 * Mod(m) + 8 * q + RmField(m)
         IN  n \in Nat /\ n \div 64 = Mod(m) /\ (n \div 8) % 8 = q /\ n % 8 = RmField(m)
<1>1. RmField(m) \in 0..7
  <2>1. m.base \in RegNum
    BY DEF MemForm
  <2>2. Low(m.base) \in 0..7
    BY <2>1, RegParts
  <2> QED
    BY <2>2 DEF RmField
<1>2. PICK c \in 0..7 : c = RmField(m)
  BY <1>1
<1>3. PICK a \in 0..3 : a = Mod(m)
  BY ModIs
<1> DEFINE n == 64 * a + 8 * q + c
<1>4. n \in Nat /\ n \div 64 = a /\ (n \div 8) % 8 = q /\ n % 8 = c
  BY ModRmParts
<1> QED
  BY <1>2, <1>3, <1>4, Zenon

\* Two sequences of bytes are one.
LEMMA Concat ==
  ASSUME NEW a \in Seq(Nat), NEW b \in Seq(Nat)
  PROVE  a \o b \in Seq(Nat)
  OBVIOUS

\* Two bytes, one after the other.
LEMMA Pair ==
  ASSUME NEW x \in Nat, NEW y \in Nat
  PROVE  <<x>> \o <<y>> = <<x, y>> /\ <<x>> \in Seq(Nat) /\ <<x, y>> \in Seq(Nat)
<1>1. <<x>> \in Seq(Nat) /\ <<y>> \in Seq(Nat) /\ <<x, y>> \in Seq(Nat)
  OBVIOUS
<1> DEFINE s == <<x>> \o <<y>>
<1>2. s \in Seq(Nat) /\ Len(s) = 2 /\ s[1] = x /\ s[2] = y
  OBVIOUS
<1> HIDE DEF s
<1>3. s = <<x, y>>
  BY <1>1, <1>2
<1> QED
  BY <1>1, <1>3 DEF s

\* ModRM, SIB, displacement and what follows.
MemBody(m, q, rest) == <<64 * Mod(m) + 8 * q + RmField(m)>> \o (Sib(m) \o (Disp(m) \o rest))

\* A memory operand is read back: the address the bytes say is the address it stands for.
LEMMA MemoryRead ==
  ASSUME NEW s, NEW rest \in Seq(Nat), NEW q \in 0..7,
         NEW m \in MemForm, MemOk(m),
         Cpu!Body(s) = MemBody(m, q, rest),
         Cpu!Ext(Cpu!Bit(Cpu!RexOf(s), 1)) = 8 * IndexBit(m),
         Cpu!Ext(Cpu!Bit(Cpu!RexOf(s), 0)) = 8 * High(m.base)
  PROVE  /\ Cpu!Digit(s) = q
         /\ ~Cpu!IsReg(s)
         /\ Cpu!Address(s) = MemAddress(m)
         /\ Cpu!Rest(s) = rest
<1> DEFINE n == 64 * Mod(m) + 8 * q + RmField(m)
           after == Disp(m) \o rest
           t == Sib(m) \o after
<1>1. /\ m.base \in RegNum /\ (m.index # NoReg => m.index \in RegNum)
      /\ m.disp \in Int /\ m.scale \in Nat
  BY DEF MemForm
<1>2. /\ Low(m.base) \in 0..7 /\ High(m.base) \in {0, 1}
      /\ m.base = Low(m.base) + 8 * High(m.base)
  BY <1>1, RegParts
<1>4. n \in Nat /\ n \div 64 = Mod(m) /\ (n \div 8) % 8 = q /\ n % 8 = RmField(m)
  BY ModRmOf, Zenon
<1> HIDE DEF n
<1>5. Disp(m) \in Seq(Nat) /\ after \in Seq(Nat)
  <2>1. Disp(m) \in Seq(Nat)
    BY DispIs
  <2> QED
    BY <2>1, Concat
<1>6. Sib(m) \in Seq(Nat)
  <2>1. CASE NeedSib(m)
    <3>1. PICK b \in Nat : Sib(m) = <<b>>
      BY <2>1, SibIs
    <3> QED
      BY <3>1
  <2>2. CASE ~NeedSib(m)
    BY <2>2, EmptySeq DEF Sib
  <2> QED
    BY <2>1, <2>2
<1>7. t \in Seq(Nat)
  BY <1>5, <1>6, Concat
<1>8. Cpu!Body(s) = <<n>> \o t
  BY DEF n, MemBody
<1> HIDE DEF after, t
<1>9. Cpu!Body(s)[1] = n /\ Cpu!Drop(Cpu!Body(s), 1) = t
  BY <1>4, <1>7, <1>8, OneAhead
<1>10. Cpu!Digit(s) = q /\ Cpu!ModOf(s) = Mod(m) /\ Cpu!RmOf(s) = RmField(m)
  BY <1>4, <1>9 DEF Cpu!Digit, Cpu!ModOf, Cpu!RmOf
<1>11. ~Cpu!IsReg(s)
  <2>1. Mod(m) # 3
    BY ModIs
  <2> QED
    BY <1>10, <2>1 DEF Cpu!IsReg
<1>12. Cpu!HasSib(s) <=> NeedSib(m)
  BY <1>2, <1>10, <1>11 DEF Cpu!HasSib, RmField, NeedSib
<1>13. ASSUME NeedSib(m)
       PROVE  /\ Cpu!AfterSib(s) = after
              /\ Cpu!BaseField(s) = Low(m.base)
              /\ m.index = NoReg => Cpu!IndexReg(s) = 4
              /\ m.index # NoReg => Cpu!IndexReg(s) = m.index /\ Cpu!Scale(s) = m.scale
  <2>1. PICK b \in Nat :
           /\ Sib(m) = <<b>>
           /\ b % 8 = Low(m.base)
           /\ (b \div 8) % 8 = (IF m.index = NoReg THEN 4 ELSE Low(m.index))
           /\ m.index # NoReg => 2^(b \div 64) = m.scale
    BY <1>13, SibIs
  <2>2. t = <<b>> \o after
    BY <2>1 DEF t
  <2>3. Cpu!Body(s) = <<n, b>> \o after
    <3>1. <<n>> \in Seq(Nat) /\ <<b>> \in Seq(Nat)
      BY <1>4, Pair
    <3>2. <<n>> \o (<<b>> \o after) = (<<n>> \o <<b>>) \o after
      BY <1>5, <3>1, ConcatAssociative
    <3>3. <<n>> \o <<b>> = <<n, b>>
      BY <1>4, Pair
    <3> QED
      BY <1>8, <2>2, <3>2, <3>3
  <2>4. Cpu!Body(s)[2] = b /\ Cpu!Drop(Cpu!Body(s), 2) = after
    BY <1>4, <1>5, <2>3, TwoAhead
  <2>5. Cpu!AfterSib(s) = after /\ Cpu!BaseField(s) = Low(m.base)
    BY <1>12, <1>13, <2>1, <2>4 DEF Cpu!AfterSib, Cpu!BaseField, Cpu!SibOf
  <2>6. Cpu!IndexReg(s) = (IF m.index = NoReg THEN 4 ELSE Low(m.index)) + 8 * IndexBit(m)
    BY <2>1, <2>4 DEF Cpu!IndexReg, Cpu!SibOf
  <2>7. m.index = NoReg => Cpu!IndexReg(s) = 4
    BY <2>6 DEF IndexBit
  <2>8. ASSUME m.index # NoReg
        PROVE  Cpu!IndexReg(s) = m.index /\ Cpu!Scale(s) = m.scale
    <3>1. m.index = Low(m.index) + 8 * High(m.index)
      BY <1>1, <2>8, RegParts
    <3>2. Cpu!Scale(s) = m.scale
      BY <2>1, <2>4, <2>8 DEF Cpu!Scale, Cpu!SibOf
    <3> QED
      BY <2>6, <2>8, <3>1, <3>2 DEF IndexBit
  <2> QED
    BY <2>5, <2>7, <2>8
<1>14. ASSUME ~NeedSib(m)
       PROVE  /\ Cpu!AfterSib(s) = after
              /\ Cpu!BaseField(s) = Low(m.base)
  <2>1. t = after
    BY <1>5, <1>14, ConcatNone DEF t, Sib
  <2> QED
    BY <1>9, <1>10, <1>12, <1>14, <2>1 DEF Cpu!AfterSib, Cpu!BaseField, RmField
<1>15. /\ Cpu!AfterSib(s) = after
       /\ Cpu!BaseField(s) = Low(m.base)
  BY <1>13, <1>14
<1>16. ~Cpu!NoBase(s)
  BY <1>10, <1>15, ModIs DEF Cpu!NoBase
<1>17. Cpu!BaseReg(s) = m.base
  BY <1>2, <1>15 DEF Cpu!BaseReg
<1>18. Cpu!DispOf(s) = m.disp /\ Cpu!Rest(s) = rest
  <2>1. CASE Mod(m) = 0
    <3>1. Cpu!DispSize(s) = 0
      BY <1>10, <1>11, <1>16, <2>1 DEF Cpu!DispSize
    <3>2. after = rest
      BY <2>1, DispIs, ConcatNone DEF after
    <3>3. m.disp = 0
      BY <2>1, ModIs
    <3> QED
      BY <1>15, <3>1, <3>2, <3>3, ConcatNone DEF Cpu!DispOf, Cpu!Rest
  <2>2. CASE Mod(m) = 1
    <3>1. Cpu!DispSize(s) = 1
      BY <1>10, <1>11, <2>2 DEF Cpu!DispSize
    <3>2. Len(Disp(m)) = 1 /\ Cpu!SignedByte(Disp(m)[1]) = m.disp
      BY <2>2, DispIs
    <3>3. after[1] = Disp(m)[1]
      <4>1. 1 \in 1..Len(Disp(m))
        BY <3>2
      <4> QED
        BY <1>5, <4>1, InFirst DEF after
    <3>4. Cpu!Drop(after, 1) = rest
      BY <1>5, <3>2, Behind DEF after
    <3>5. Cpu!DispOf(s) = m.disp
      BY <1>15, <3>1, <3>2, <3>3 DEF Cpu!DispOf
    <3> QED
      BY <1>15, <3>1, <3>4, <3>5 DEF Cpu!Rest
  <2>3. CASE Mod(m) = 2
    <3>1. Cpu!DispSize(s) = 4
      BY <1>10, <1>11, <2>3 DEF Cpu!DispSize
    <3>2. Len(Disp(m)) = 4 /\ Cpu!Signed32(Disp(m)) = m.disp
      BY <2>3, DispIs
    <3>3. Cpu!Signed32(after) = m.disp
      BY <1>5, <3>2, SameSigned32 DEF after
    <3>4. Cpu!Drop(after, 4) = rest
      BY <1>5, <3>2, Behind DEF after
    <3>5. Cpu!DispOf(s) = m.disp
      BY <1>15, <3>1, <3>3 DEF Cpu!DispOf
    <3> QED
      BY <1>15, <3>1, <3>4, <3>5 DEF Cpu!Rest
  <2> QED
    BY <2>1, <2>2, <2>3, ModIs
<1>19. Cpu!Coef(s) = MemAddress(m).coef
  <2>1. ASSUME NEW r \in RegNum
        PROVE  /\ ~Cpu!NoBase(s) /\ r = Cpu!BaseReg(s) <=> r = m.base
               /\ Cpu!HasSib(s) /\ Cpu!IndexReg(s) # 4 /\ r = Cpu!IndexReg(s)
                    <=> m.index # NoReg /\ r = m.index
               /\ m.index # NoReg => Cpu!Scale(s) = m.scale
    <3>1. m.index # NoReg => NeedSib(m)
      BY DEF NeedSib
    <3>2. m.index # NoReg => m.index # 4
      <4>1. Low(4) = 4
        BY DEF Low
      <4> QED
        BY <4>1 DEF MemOk
    <3> QED
      BY <1>12, <1>13, <1>16, <1>17, <3>1, <3>2
  <2>2. ASSUME NEW r \in RegNum
        PROVE  (IF ~Cpu!NoBase(s) /\ r = Cpu!BaseReg(s) THEN 1 ELSE 0)
                 + (IF Cpu!HasSib(s) /\ Cpu!IndexReg(s) # 4 /\ r = Cpu!IndexReg(s)
                    THEN Cpu!Scale(s) ELSE 0)
               = (IF r = m.base THEN 1 ELSE 0)
                   + (IF m.index # NoReg /\ r = m.index THEN m.scale ELSE 0)
    BY <2>1
  <2> QED
    BY <2>2 DEF Cpu!Coef, MemAddress, RegNum
<1>20. Cpu!Address(s) = MemAddress(m)
  BY <1>12, <1>16, <1>18, <1>19 DEF Cpu!Address, MemAddress
<1> QED
  BY <1>10, <1>11, <1>18, <1>20

-----------------------------------------------------------------------------
(* A register or an address.                                               *)

\* What the decoder reads behind the instruction.
Zeros16 == [i \in 1..16 |-> 0]

\* The padding is bytes.
LEMMA ZerosAreBytes == Zeros16 \in Seq(Nat)
  BY SMT DEF Zeros16

\* A register or an address.
IsRegister(rm) == "reg" \in DOMAIN rm

\* The register or address of ModRM.
RmForm == [reg : RegNum] \cup MemForm

\* What a register or an address has.
LEMMA RmForms ==
  ASSUME NEW rm \in RmForm
  PROVE  /\ IsRegister(rm) => rm.reg \in RegNum
         /\ ~IsRegister(rm) => rm \in MemForm
  BY DEF RmForm, MemForm, IsRegister

\* The REX bits of a register or an address.
XBit(rm) == IF IsRegister(rm) THEN 0 ELSE IndexBit(rm)
BBit(rm) == IF IsRegister(rm) THEN High(rm.reg) ELSE High(rm.base)

\* The REX bits are bits.
LEMMA RmBits ==
  ASSUME NEW rm \in RmForm
  PROVE  XBit(rm) \in {0, 1} /\ BBit(rm) \in {0, 1}
<1>1. CASE IsRegister(rm)
  BY <1>1, RmForms, RegParts DEF XBit, BBit
<1>2. CASE ~IsRegister(rm)
  <2>1. rm.base \in RegNum /\ (rm.index # NoReg => rm.index \in RegNum)
    BY <1>2, RmForms DEF MemForm
  <2>2. High(rm.base) \in {0, 1} /\ (rm.index # NoReg => High(rm.index) \in {0, 1})
    BY <2>1, RegParts
  <2> QED
    BY <1>2, <2>2 DEF XBit, BBit, IndexBit
<1> QED
  BY <1>1, <1>2

\* ModRM and all that follows it.
RmTail(q, rm, rest) ==
  IF IsRegister(rm) THEN <<192 + 8 * q + Low(rm.reg)>> \o rest ELSE MemBody(rm, q, rest)

\* The operand in a register or memory, as it should be read.
RmOperand(rm, size) ==
  IF IsRegister(rm) THEN <<"reg", rm.reg, size>> ELSE <<"mem", MemAddress(rm), size>>

\* An SSE register or an address.
XmmOperand(rm) ==
  IF IsRegister(rm) THEN <<"xmm", rm.reg>> ELSE <<"mem", MemAddress(rm), 0>>

\* A register or an address of one byte.
ByteOperand(w, reg, rm) ==
  IF IsRegister(rm) /\ ~w /\ reg < 8 /\ rm.reg \in 4..7
  THEN <<"high", rm.reg - 4>>
  ELSE RmOperand(rm, 1)

\* The SIB byte is a sequence of bytes.
LEMMA SibType ==
  ASSUME NEW m \in MemForm, MemOk(m)
  PROVE  Sib(m) \in Seq(Nat)
<1>1. CASE NeedSib(m)
  <2>1. PICK b \in Nat : Sib(m) = <<b>>
    BY <1>1, SibIs
  <2> QED
    BY <2>1
<1>2. CASE ~NeedSib(m)
  BY <1>2, EmptySeq DEF Sib
<1> QED
  BY <1>1, <1>2

\* A byte and what follows it.
LEMMA ByteThen ==
  ASSUME NEW n \in Nat, NEW t \in Seq(Nat)
  PROVE  <<n>> \o t \in Seq(Nat) /\ <<n>> \in Seq(Nat)
  OBVIOUS

\* ModRM of an address is a number.
LEMMA MemModRm ==
  ASSUME NEW m \in MemForm, NEW q \in 0..7
  PROVE  64 * Mod(m) + 8 * q + RmField(m) \in Nat
  BY ModRmOf, Zenon

\* ModRM of a register is a number.
LEMMA RegModRm ==
  ASSUME NEW n \in RegNum, NEW q \in 0..7
  PROVE  192 + 8 * q + Low(n) \in Nat
<1>1. Low(n) \in 0..7
  BY RegParts
<1> QED
  BY <1>1

\* ModRM and what belongs to it are bytes.
LEMMA TailType ==
  ASSUME NEW rm \in RmForm, RmOk(rm), NEW q \in 0..7, NEW rest \in Seq(Nat)
  PROVE  RmTail(q, rm, rest) \in Seq(Nat)
<1>1. CASE IsRegister(rm)
  <2>1. 192 + 8 * q + Low(rm.reg) \in Nat
    BY <1>1, RmForms, RegModRm
  <2> QED
    BY <1>1, <2>1, ByteThen DEF RmTail
<1>2. CASE ~IsRegister(rm)
  <2>1. rm \in MemForm /\ MemOk(rm)
    BY <1>2, RmForms DEF RmOk, IsRegister
  <2>2. Sib(rm) \in Seq(Nat) /\ Disp(rm) \in Seq(Nat)
    BY <2>1, SibType, DispIs
  <2>3. Sib(rm) \o (Disp(rm) \o rest) \in Seq(Nat)
    BY <2>2, Concat
  <2>4. 64 * Mod(rm) + 8 * q + RmField(rm) \in Nat
    BY <2>1, MemModRm
  <2>5. MemBody(rm, q, rest) \in Seq(Nat)
    BY <2>3, <2>4, ByteThen DEF MemBody
  <2> QED
    BY <1>2, <2>5 DEF RmTail
<1> QED
  BY <1>1, <1>2

\* Four sequences, from the left and from the right.
Regroups(a, b, c, d) == ((a \o b) \o c) \o d = a \o (b \o (c \o d))

\* Three sequences, from the left and from the right.
Groups(a, b, c) == (a \o b) \o c = a \o (b \o c)

LEMMA Associative ==
  ASSUME NEW a \in Seq(Nat), NEW b \in Seq(Nat), NEW c \in Seq(Nat)
  PROVE  Groups(a, b, c)
  BY DEF Groups

\* Sequences of bytes can be grouped as one likes.
LEMMA Regroup ==
  ASSUME NEW a \in Seq(Nat), NEW b \in Seq(Nat), NEW c \in Seq(Nat), NEW d \in Seq(Nat)
  PROVE  Regroups(a, b, c, d)
<1>1. PICK bc \in Seq(Nat) : bc = b \o c
  BY Concat
<1>2. Groups(a, b, c) /\ Groups(a, bc, d) /\ Groups(b, c, d)
  BY Associative, Zenon
<1> QED
  BY <1>1, <1>2, Zenon DEF Groups, Regroups

\* The REX prefix is a sequence of bytes.
LEMMA RexType ==
  ASSUME NEW w \in BOOLEAN, NEW r \in {0, 1}, NEW x \in {0, 1}, NEW b \in {0, 1}
  PROVE  Rex(w, r, x, b) \in Seq(Nat)
<1>1. RexByte(w, r, x, b) \in Nat
  BY SMT DEF RexByte
<1>2. <<RexByte(w, r, x, b)>> \in Seq(Nat) /\ <<>> \in Seq(Nat)
  BY <1>1, ByteThen, EmptySeq
<1>3. Rex(w, r, x, b) \in {<<>>, <<RexByte(w, r, x, b)>>}
  BY Zenon DEF Rex, RexByte
<1> QED
  BY <1>2, <1>3

\* What emit_rm writes, before any bytes.
Emits(w, reg, rm, oc, rest) ==
  /\ EmitRm(w, reg, rm, oc) \in Seq(Nat)
  /\ EmitRm(w, reg, rm, oc) \o rest
       = Rex(w, High(reg), XBit(rm), BBit(rm)) \o (oc \o RmTail(Low(reg), rm, rest))

\* emit_rm and emit_sse write REX, opcode and the tail.
LEMMA EmitIs ==
  ASSUME NEW w \in BOOLEAN, NEW reg \in RegNum, NEW rm \in RmForm, RmOk(rm),
         NEW oc \in Seq(Nat), NEW rest \in Seq(Nat)
  PROVE  Emits(w, reg, rm, oc, rest)
<1> DEFINE x == Rex(w, High(reg), XBit(rm), BBit(rm))
           q == Low(reg)
<1>1. q \in 0..7 /\ High(reg) \in {0, 1}
  BY RegParts
<1>2. x \in Seq(Nat)
  BY <1>1, RmBits, RexType
<1>3. CASE IsRegister(rm)
  <2> DEFINE n == 192 + 8 * q + Low(rm.reg)
  <2>1. n \in Nat
    BY <1>1, <1>3, RmForms, RegModRm
  <2>2. EmitRm(w, reg, rm, oc) = (x \o oc) \o <<n>>
    BY <1>3, Zenon DEF EmitRm, XBit, BBit, IsRegister
  <2>3. RmTail(q, rm, rest) = <<n>> \o rest
    BY <1>3 DEF RmTail
  <2>4. PICK k \in Seq(Nat) : k = <<n>>
    BY <2>1, ByteThen, EmptySeq
  <2>5. PICK y \in Seq(Nat) : y = x
    BY <1>2
  <2> HIDE DEF x, n
  <2>6. (y \o oc) \o k \in Seq(Nat)
    BY Concat, Zenon
  <2>7. Regroups(y, oc, k, rest)
    BY Regroup
  <2> QED
    BY <2>2, <2>3, <2>4, <2>5, <2>6, <2>7, Zenon DEF x, Regroups, Emits
<1>4. CASE ~IsRegister(rm)
  <2> DEFINE n == 64 * Mod(rm) + 8 * q + RmField(rm)
  <2>1. rm \in MemForm /\ MemOk(rm)
    BY <1>4, RmForms DEF RmOk, IsRegister
  <2>2. n \in Nat
    BY <1>1, <2>1, MemModRm
  <2>3. EmitRm(w, reg, rm, oc) = (((x \o oc) \o <<n>>) \o Sib(rm)) \o Disp(rm)
    BY <1>4, Zenon DEF EmitRm, XBit, BBit, IsRegister, IndexBit, RmField
  <2>4. RmTail(q, rm, rest) = <<n>> \o (Sib(rm) \o (Disp(rm) \o rest))
    BY <1>4 DEF RmTail, MemBody
  <2>5. PICK k \in Seq(Nat) : k = <<n>>
    BY <2>2, ByteThen, EmptySeq
  <2>6. PICK u \in Seq(Nat) : u = Sib(rm)
    BY <2>1, SibType
  <2>7. PICK v \in Seq(Nat) : v = Disp(rm)
    BY <2>1, DispIs
  <2>8. PICK y \in Seq(Nat) : y = x
    BY <1>2
  <2> HIDE DEF x, n
  <2>9. PICK z \in Seq(Nat) : z = (y \o oc) \o k
    BY Concat, Zenon
  <2>10. PICK e \in Seq(Nat) : e = u \o (v \o rest)
    BY Concat, Zenon
  <2>11. (z \o u) \o v \in Seq(Nat)
    BY Concat, Zenon
  <2>12. Regroups(z, u, v, rest)
    BY Regroup
  <2>13. Regroups(y, oc, k, e)
    BY Regroup
  <2> QED
    BY <2>3, <2>4, <2>5, <2>6, <2>7, <2>8, <2>9, <2>10, <2>11, <2>12, <2>13, Zenon DEF x,
       Regroups, Emits
<1> QED
  BY <1>3, <1>4

-----------------------------------------------------------------------------
(* What is emitted is read.                                                *)

\* An opcode of one byte, or of two.
OpcodeBytes(two, op) == IF two THEN <<15, op>> ELSE <<op>>

\* The bytes s say prefix p, W, register reg, the register or memory rm, and then rest.
Reads(s, p, w, reg, rm, rest) ==
  /\ Cpu!Legacy(s) = PrefixByte(p)
  /\ Cpu!W(s) <=> w
  /\ Cpu!Digit(s) = Low(reg)
  /\ Cpu!RegOf(s) = reg
  /\ Cpu!Rest(s) = rest
  /\ \A size \in Nat : Cpu!RmGp(s, size) = RmOperand(rm, size)
  /\ Cpu!RmXmm(s) = XmmOperand(rm)
  /\ Cpu!RmByte(s) = ByteOperand(w, reg, rm)

\* An opcode is bytes.
LEMMA OpcodeType ==
  ASSUME NEW two \in BOOLEAN, NEW op \in Nat
  PROVE  OpcodeBytes(two, op) \in Seq(Nat)
<1>1. <<15, op>> \in Seq(Nat) /\ <<op>> \in Seq(Nat)
  OBVIOUS
<1> QED
  BY <1>1 DEF OpcodeBytes

\* The first byte of an opcode.
LEMMA OpcodeFirst ==
  ASSUME NEW two \in BOOLEAN, NEW op \in Nat, NEW t \in Seq(Nat)
  PROVE  /\ OpcodeBytes(two, op) \o t \in Seq(Nat)
         /\ (OpcodeBytes(two, op) \o t)[1] = (IF two THEN 15 ELSE op)
<1>1. CASE two
  BY <1>1, TwoAhead DEF OpcodeBytes
<1>2. CASE ~two
  BY <1>2, OneAhead DEF OpcodeBytes
<1> QED
  BY <1>1, <1>2

\* The decoder knows an opcode of one byte from one of two.
LEMMA OpcodeIs ==
  ASSUME NEW s, NEW two \in BOOLEAN, NEW op \in Nat, ~two => op # 15, NEW t \in Seq(Nat),
         Cpu!PastRex(s) = OpcodeBytes(two, op) \o t
  PROVE  (Cpu!TwoByte(s) <=> two) /\ Cpu!Opcode(s) = op /\ Cpu!Body(s) = t
<1>1. CASE two
  BY <1>1, OpcodeRead DEF OpcodeBytes
<1>2. CASE ~two
  BY <1>2, OpcodeRead DEF OpcodeBytes
<1> QED
  BY <1>1, <1>2

\* s is one instruction of one or two opcode bytes.
ReadBack(s, p, w, reg, rm, two, op, rest) ==
  Reads(s, p, w, reg, rm, rest) /\ (Cpu!TwoByte(s) <=> two) /\ Cpu!Opcode(s) = op

\* Not a prefix.
PlainOpcode(op) == op \notin {15, 102, 242, 243} /\ op \notin 64..79

\* What emit_rm and emit_sse write is read back.
THEOREM EmittedIsRead ==
  ASSUME NEW w \in BOOLEAN, NEW reg \in RegNum, NEW rm \in RmForm, RmOk(rm),
         NEW p \in LegacyPrefixes, NEW two \in BOOLEAN, NEW op \in Nat,
         ~two => PlainOpcode(op), NEW rest \in Seq(Nat)
  PROVE  ReadBack(p \o (EmitRm(w, reg, rm, OpcodeBytes(two, op)) \o rest), p, w, reg, rm, two, op, rest)
<1> DEFINE q == Low(reg)
           t == RmTail(q, rm, rest)
           u == OpcodeBytes(two, op) \o t
           r == High(reg)
           x == XBit(rm)
           b == BBit(rm)
           s == p \o (EmitRm(w, reg, rm, OpcodeBytes(two, op)) \o rest)
<1>1. q \in 0..7 /\ r \in {0, 1} /\ reg = q + 8 * r
  BY RegParts
<1>2. x \in {0, 1} /\ b \in {0, 1}
  BY RmBits
<1>3. t \in Seq(Nat)
  BY <1>1, TailType
<1>4. s = p \o (Rex(w, r, x, b) \o u)
  <2>1. PICK oc \in Seq(Nat) : oc = OpcodeBytes(two, op)
    BY OpcodeType
  <2>2. Emits(w, reg, rm, oc, rest)
    BY EmitIs
  <2> QED
    BY <2>1, <2>2, Zenon DEF Emits
<1> HIDE DEF t, s
<1>5. u \in Seq(Nat) /\ u[1] = (IF two THEN 15 ELSE op)
  BY <1>3, OpcodeFirst
<1>6. NotPrefix(u[1])
  BY <1>5, SMT DEF PlainOpcode, NotPrefix
<1> HIDE DEF u
<1>7. /\ Cpu!Legacy(s) = PrefixByte(p)
      /\ Cpu!PastRex(s) = u
      /\ (Cpu!W(s) <=> w)
      /\ Cpu!Ext(Cpu!Bit(Cpu!RexOf(s), 2)) = 8 * r
      /\ Cpu!Ext(Cpu!Bit(Cpu!RexOf(s), 1)) = 8 * x
      /\ Cpu!Ext(Cpu!Bit(Cpu!RexOf(s), 0)) = 8 * b
      /\ (Cpu!RexOf(s) = 0 <=> ~w /\ r + x + b = 0)
  <2>1. PICK y \in Seq(Nat) : y = u /\ NotPrefix(y[1])
    BY <1>5, <1>6
  <2>2. PICK r2 \in {0, 1}, x2 \in {0, 1}, b2 \in {0, 1} : r2 = r /\ x2 = x /\ b2 = b
    BY <1>1, <1>2
  <2>3. PrefixesRead(p \o (Rex(w, r2, x2, b2) \o y), p, w, r2, x2, b2, y)
    BY <2>1, RexPrefix
  <2>4. s = p \o (Rex(w, r2, x2, b2) \o y)
    BY <1>4, <2>1, <2>2
  <2> QED
    BY <2>1, <2>2, <2>3, <2>4, Zenon DEF PrefixesRead
<1>8. (Cpu!TwoByte(s) <=> two) /\ Cpu!Opcode(s) = op /\ Cpu!Body(s) = t
  <2>1. ~two => op # 15
    BY SMT DEF PlainOpcode
  <2> QED
    BY <1>3, <1>7, <2>1, OpcodeIs DEF u
<1>9. ASSUME IsRegister(rm)
      PROVE  Reads(s, p, w, reg, rm, rest)
  <2>1. PICK n \in RegNum : n = rm.reg
    BY <1>9, RmForms
  <2>2. PICK low \in 0..7 : low = Low(n)
    BY RegParts
  <2>3. n = low + 8 * b /\ x = 0
    BY <1>9, <2>1, <2>2, RegParts DEF BBit, XBit
  <2>4. t = <<192 + 8 * q + low>> \o rest
    BY <1>9, <2>1, <2>2 DEF t, RmTail
  <2>5. /\ Cpu!Digit(s) = q /\ Cpu!RmOf(s) = low /\ Cpu!IsReg(s) /\ Cpu!Rest(s) = rest
    <3>1. PICK k \in 0..7 : k = q
      BY <1>1
    <3>2. Cpu!Body(s) = <<192 + 8 * k + low>> \o rest
      BY <1>8, <2>4, <3>1
    <3>3. RegistersRead(s, k, low, rest)
      BY <3>2, RegisterRead
    <3> QED
      BY <3>1, <3>3, Zenon DEF RegistersRead
  <2>6. Cpu!RegOf(s) = reg
    BY <1>1, <1>7, <2>5 DEF Cpu!RegOf
  <2>7. Cpu!RmNum(s) = rm.reg
    BY <1>7, <2>1, <2>3, <2>5 DEF Cpu!RmNum
  <2>8. \A size \in Nat : Cpu!RmGp(s, size) = RmOperand(rm, size)
    BY <1>9, <2>5, <2>7 DEF Cpu!RmGp, Cpu!Gp, RmOperand
  <2>9. Cpu!RmXmm(s) = XmmOperand(rm)
    BY <1>9, <2>5, <2>7 DEF Cpu!RmXmm, XmmOperand
  <2>10. Cpu!RmByte(s) = ByteOperand(w, reg, rm)
    <3>1. (Cpu!IsReg(s) /\ Cpu!RexOf(s) = 0 /\ Cpu!RmOf(s) >= 4)
            <=> (IsRegister(rm) /\ ~w /\ reg < 8 /\ rm.reg \in 4..7)
      BY <1>1, <1>2, <1>7, <1>9, <2>1, <2>3, <2>5, SMT
    <3>2. b = 0 => rm.reg = Cpu!RmOf(s)
      BY <2>1, <2>3, <2>5
    <3>3. Cpu!RmGp(s, 1) = RmOperand(rm, 1)
      BY <2>8
    <3>4. rm.reg \in 4..7 => b = 0
      BY <1>2, <2>1, <2>2, <2>3
    <3> HIDE DEF b
    <3>5. CASE Cpu!IsReg(s) /\ Cpu!RexOf(s) = 0 /\ Cpu!RmOf(s) >= 4
      BY <3>1, <3>2, <3>4, <3>5 DEF Cpu!RmByte, ByteOperand
    <3>6. CASE ~(Cpu!IsReg(s) /\ Cpu!RexOf(s) = 0 /\ Cpu!RmOf(s) >= 4)
      BY <3>1, <3>3, <3>6, Zenon DEF Cpu!RmByte, ByteOperand
    <3> QED
      BY <3>5, <3>6
  <2> QED
    BY <1>7, <1>8, <2>5, <2>6, <2>8, <2>9, <2>10, Zenon DEF Reads
<1>10. ASSUME ~IsRegister(rm)
       PROVE  Reads(s, p, w, reg, rm, rest)
  <2>1. rm \in MemForm /\ MemOk(rm)
    BY <1>10, RmForms DEF RmOk, IsRegister
  <2>2. t = MemBody(rm, q, rest)
    BY <1>10 DEF t, RmTail
  <2>3. x = IndexBit(rm) /\ b = High(rm.base)
    BY <1>10 DEF XBit, BBit
  <2>4. Cpu!Digit(s) = q /\ ~Cpu!IsReg(s) /\ Cpu!Address(s) = MemAddress(rm) /\ Cpu!Rest(s) = rest
    <3>1. /\ Cpu!Body(s) = MemBody(rm, q, rest)
          /\ Cpu!Ext(Cpu!Bit(Cpu!RexOf(s), 1)) = 8 * IndexBit(rm)
          /\ Cpu!Ext(Cpu!Bit(Cpu!RexOf(s), 0)) = 8 * High(rm.base)
      BY <1>7, <1>8, <2>2, <2>3
    <3> QED
      BY <1>1, <2>1, <3>1, MemoryRead
  <2>5. Cpu!RegOf(s) = reg
    BY <1>1, <1>7, <2>4 DEF Cpu!RegOf
  <2>6. \A size \in Nat : Cpu!RmGp(s, size) = RmOperand(rm, size)
    BY <1>10, <2>4, Zenon DEF Cpu!RmGp, RmOperand
  <2>7. Cpu!RmXmm(s) = XmmOperand(rm)
    BY <1>10, <2>4, Zenon DEF Cpu!RmXmm, XmmOperand
  <2>8. Cpu!RmByte(s) = ByteOperand(w, reg, rm)
    BY <1>10, <2>4, <2>6 DEF Cpu!RmByte, ByteOperand
  <2> QED
    BY <1>7, <1>8, <2>4, <2>5, <2>6, <2>7, <2>8, Zenon DEF Reads
<1>11. ReadBack(s, p, w, reg, rm, two, op, rest)
  BY <1>8, <1>9, <1>10, Zenon DEF ReadBack
<1> QED
  BY <1>11, Zenon DEF s

-----------------------------------------------------------------------------
(* Folds over sequences.                                                   *)

\* An inductive set of numbers has them all, up to a bound.
LEMMA UpTo ==
  ASSUME NEW n \in Nat, NEW S, 0 \in S, \A k \in 0..(n - 1) : k \in S => k + 1 \in S
  PROVE  \A k \in 0..n : k \in S
<1> DEFINE T == {k \in 0..n : k \notin S}
<1>1. ASSUME T # {} PROVE FALSE
  <2>1. T \in SUBSET Nat
    OBVIOUS
  <2>2. PICK m \in T : \A k \in T : m <= k
    BY <1>1, <2>1, LeastOne
  <2>3. m \in 0..n /\ m \notin S /\ m # 0
    BY <2>2
  <2>4. m - 1 \in 0..(n - 1) /\ m - 1 \notin T
    BY <2>2, <2>3
  <2>5. m - 1 \in S
    BY <2>4
  <2>6. (m - 1) + 1 \in S
    BY <2>4, <2>5
  <2> QED
    BY <2>3, <2>6
<1> QED
  BY <1>1

\* The greatest number of a set, and what remains without it.
LEMMA MaxOf ==
  ASSUME NEW n \in Nat, NEW s \in SUBSET (1..n), s # {}
  PROVE  /\ Max(s) \in s
         /\ \A k \in 0..(n - 1) : s \in SUBSET (1..(k + 1)) => s \ {Max(s)} \in SUBSET (1..k)
<1>1. \E x \in s : \A y \in s : x >= y
  <2> DEFINE T == {n - x : x \in s}
  <2>0. \A x \in s : x \in 1..n /\ n - x \in Nat
    OBVIOUS
  <2>1. T \in SUBSET Nat /\ T # {}
    BY <2>0, Zenon
  <2>2. PICK m \in T : \A k \in T : m <= k
    BY <2>1, LeastOne
  <2>3. PICK x \in s : m = n - x
    BY <2>2
  <2>4. \A y \in s : n - x <= n - y
    BY <2>2, <2>3
  <2>5. \A y \in s : x >= y
    BY <2>0, <2>4
  <2> QED
    BY <2>5
<1>2. Max(s) \in s /\ \A y \in s : Max(s) >= y
  BY <1>1, Zenon DEF Max
<1>3. ASSUME NEW k \in 0..(n - 1), s \in SUBSET (1..(k + 1)), NEW y \in s \ {Max(s)}
      PROVE  y \in 1..k
  <2>1. Max(s) \in 1..(k + 1) /\ y \in 1..(k + 1) /\ Max(s) >= y /\ y # Max(s)
    BY <1>2, <1>3
  <2> QED
    BY <2>1
<1> QED
  BY <1>2, <1>3, Zenon

\* The greatest number of an interval.
LEMMA MaxOfInterval ==
  ASSUME NEW n \in Nat, NEW k \in 1..n
  PROVE  Max(1..k) = k /\ (1..k) \ {k} = 1..(k - 1) /\ 1..k # {} /\ 1..k \in SUBSET (1..n)
<1>1. \E x \in 1..k : \A y \in 1..k : x >= y
  OBVIOUS
<1>2. Max(1..k) \in 1..k /\ \A y \in 1..k : Max(1..k) >= y
  BY <1>1, Zenon DEF Max
<1> QED
  BY <1>2

\* What a fold over 1..n computes, step by step from base.
Folds(it, n, base, g) ==
  it = [s \in SUBSET (1..n) |-> IF s = {} THEN base ELSE g[Max(s)][it[s \ {Max(s)}]]]

\* A fold over the subsets of an interval, built from the smaller to the greater.
LEMMA FoldExists ==
  ASSUME NEW St, NEW n \in Nat, NEW base \in St, NEW g \in [1..n -> [St -> St]]
  PROVE  \E it \in [SUBSET (1..n) -> St] : Folds(it, n, base, g)
<1> DEFINE Body(it, s) == IF s = {} THEN base ELSE g[Max(s)][it[s \ {Max(s)}]]
           Good(it, k) == \A s \in SUBSET (1..k) : it[s] = Body(it, s)
           S == {k \in 0..n : \E it \in [SUBSET (1..n) -> St] : Good(it, k)}
<1>1. 0 \in S
  <2>1. [s \in SUBSET (1..n) |-> base] \in [SUBSET (1..n) -> St]
    OBVIOUS
  <2>2. \A s \in SUBSET (1..0) : s = {} /\ s \in SUBSET (1..n)
    OBVIOUS
  <2>3. Good([s \in SUBSET (1..n) |-> base], 0)
    BY <2>2
  <2> HIDE DEF Good
  <2>4. 0 \in 0..n
    OBVIOUS
  <2> QED
    BY <2>1, <2>3, <2>4, Zenon
<1>2. ASSUME NEW k \in 0..(n - 1), k \in S PROVE k + 1 \in S
  <2>1. PICK it \in [SUBSET (1..n) -> St] : Good(it, k)
    BY <1>2
  <2> DEFINE h == [s \in SUBSET (1..n) |-> Body(it, s)]
  <2>2. h \in [SUBSET (1..n) -> St]
    <3>1. ASSUME NEW s \in SUBSET (1..n) PROVE Body(it, s) \in St
      <4>1. CASE s # {}
        <5>1. Max(s) \in 1..n /\ s \ {Max(s)} \in SUBSET (1..n)
          BY <4>1, MaxOf
        <5> QED
          BY <4>1, <5>1
      <4> QED
        BY <4>1
    <3> QED
      BY <3>1
  <2>3. ASSUME NEW s \in SUBSET (1..(k + 1)), s # {}
        PROVE  h[s] = Body(h, s)
    <3>0. s \in SUBSET (1..n)
      OBVIOUS
    <3>1. s \ {Max(s)} \in SUBSET (1..k) /\ s \in SUBSET (1..n)
      BY <2>3, <3>0, MaxOf, Zenon
    <3>2. s \ {Max(s)} \in SUBSET (1..n)
      BY <3>1
    <3>3. it[s \ {Max(s)}] = h[s \ {Max(s)}]
      BY <2>1, <3>1, <3>2
    <3> QED
      BY <2>3, <3>1, <3>3
  <2>4. h[{}] = Body(h, {})
    OBVIOUS
  <2>5. Good(h, k + 1)
    BY <2>3, <2>4
  <2> HIDE DEF h, Good
  <2> QED
    BY <2>2, <2>5
<1> HIDE DEF S
<1>3. \A k \in 0..(n - 1) : k \in S => k + 1 \in S
  BY <1>2
<1>4. \A k \in 0..n : k \in S
  BY <1>1, <1>3, UpTo
<1>5. n \in S
  BY <1>4
<1> QED
  BY <1>5 DEF S, Folds

-----------------------------------------------------------------------------
(* parse_mem: the states it goes through.                                  *)

\* Parsing an address, and adding up what is written, term by term.
MemState == [base : RegNum \cup {NoReg}, index : RegNum \cup {NoReg}, scale : Nat, disp : Int]
NoTerms  == [base |-> NoReg, index |-> NoReg, scale |-> 1, disp |-> 0]

\* parse_mem starts in a state of its own.
LEMMA NoTermsType == NoTerms \in MemState
  BY DEF NoTerms, MemState

\* The kinds of terms.
LEMMA TermKinds ==
  ASSUME NEW term \in Term
  PROVE  \/ term.k = "reg" /\ term.n \in RegNum /\ term.s \in {4, 8}
         \/ term.k = "scaled" /\ term.n \in RegNum /\ term.s \in {4, 8} /\ term.by \in Nat
         \/ term.k = "disp" /\ term.d \in Int
  BY DEF Term

\* A term keeps the state a state.
LEMMA AddTermType ==
  ASSUME NEW m \in MemState, NEW term \in Term
  PROVE  AddTerm(m, term) \in MemState
<1>1. CASE term.k = "reg" /\ term.n \in RegNum
  <2>1. AddTerm(m, term) = IF m.base = NoReg THEN [m EXCEPT !.base = term.n]
                                             ELSE [m EXCEPT !.index = term.n]
    BY <1>1 DEF AddTerm
  <2> QED
    BY <1>1, <2>1 DEF MemState
<1>2. CASE term.k = "scaled" /\ term.n \in RegNum /\ term.by \in Nat
  <2>1. term.by % 256 \in Nat
    BY <1>2
  <2>2. AddTerm(m, term) = [m EXCEPT !.index = term.n, !.scale = term.by % 256]
    BY <1>2 DEF AddTerm
  <2> QED
    BY <1>2, <2>1, <2>2 DEF MemState
<1>3. CASE term.k = "disp" /\ term.d \in Int
  <2>1. AddTerm(m, term) = [m EXCEPT !.disp = @ + term.d]
    BY <1>3 DEF AddTerm
  <2> QED
    BY <1>3, <2>1 DEF MemState
<1> QED
  BY <1>1, <1>2, <1>3, TermKinds

\* A coefficient is a natural number.
LEMMA TermCoefType ==
  ASSUME NEW term \in Term, NEW r \in RegNum
  PROVE  TermCoef(term, r) \in Nat
  BY TermKinds DEF TermCoef

\* The states of parse_mem, one after each term.
Parses(h, terms) ==
  /\ h \in [0..Len(terms) -> MemState]
  /\ h[0] = NoTerms
  /\ \A k \in 1..Len(terms) : h[k] = AddTerm(h[k - 1], terms[k])

\* parse_mem goes through such states.
LEMMA ParseMemIs ==
  ASSUME NEW terms \in Seq(Term)
  PROVE  \E h : Parses(h, terms) /\ ParseMem(terms) = h[Len(terms)]
<1> DEFINE n == Len(terms)
           g == [j \in 1..n |-> [m \in MemState |-> AddTerm(m, terms[j])]]
           Right(it) == it = [s \in SUBSET DOMAIN terms |->
                                IF s = {} THEN NoTerms
                                ELSE AddTerm(it[s \ {Max(s)}], terms[Max(s)])]
           iter == CHOOSE it : Right(it)
<1>1. n \in Nat /\ DOMAIN terms = 1..n /\ \A j \in 1..n : terms[j] \in Term
  OBVIOUS
<1>2. g \in [1..n -> [MemState -> MemState]]
  BY <1>1, AddTermType
<1>3. PICK it \in [SUBSET (1..n) -> MemState] : Folds(it, n, NoTerms, g)
  BY <1>1, <1>2, NoTermsType, FoldExists
<1>4. Right(it)
  <2>1. ASSUME NEW s \in SUBSET (1..n), s # {}
        PROVE  it[s] = AddTerm(it[s \ {Max(s)}], terms[Max(s)])
    <3>1. Max(s) \in 1..n /\ s \ {Max(s)} \in SUBSET (1..n)
      BY <1>1, <2>1, MaxOf
    <3>2. it[s] = g[Max(s)][it[s \ {Max(s)}]]
      BY <1>3, <2>1 DEF Folds
    <3> QED
      BY <3>1, <3>2
  <2>2. it[{}] = NoTerms
    BY <1>3 DEF Folds
  <2> QED
    BY <1>1, <1>3, <2>1, <2>2
<1>5. Right(iter)
  BY <1>4, Zenon
<1>6. ParseMem(terms) = iter[DOMAIN terms]
  BY DEF ParseMem, FoldLeft, MapThenFoldSet, NoTerms
<1> HIDE DEF iter, g
<1>7. iter[{}] = NoTerms
  <2>1. {} \in SUBSET DOMAIN terms
    OBVIOUS
  <2> QED
    BY <1>5, <2>1
<1>8. ASSUME NEW k \in 1..n PROVE iter[1..k] = AddTerm(iter[1..(k - 1)], terms[k])
  <2>1. Max(1..k) = k /\ (1..k) \ {k} = 1..(k - 1) /\ 1..k # {} /\ 1..k \in SUBSET (1..n)
    BY <1>1, MaxOfInterval
  <2>2. iter[1..k] = AddTerm(iter[(1..k) \ {Max(1..k)}], terms[Max(1..k)])
    BY <1>1, <1>5, <2>1
  <2> QED
    BY <2>1, <2>2
<1> DEFINE h == [k \in 0..n |-> iter[1..k]]
<1>9. h[0] = NoTerms /\ ParseMem(terms) = h[n]
  BY <1>1, <1>6, <1>7
<1>10. ASSUME NEW k \in 1..n PROVE h[k] = AddTerm(h[k - 1], terms[k])
  BY <1>1, <1>8
<1>11. h \in [0..n -> MemState]
  <2> DEFINE S == {k \in 0..n : h[k] \in MemState}
  <2>1. 0 \in S
    BY <1>1, <1>9, NoTermsType
  <2>2. ASSUME NEW k \in 0..(n - 1), k \in S PROVE k + 1 \in S
    <3>0. k + 1 \in 1..n /\ (k + 1) - 1 = k
      BY <1>1
    <3>1. h[k + 1] = AddTerm(h[k], terms[k + 1]) /\ terms[k + 1] \in Term /\ h[k] \in MemState
      BY <1>1, <1>10, <2>2, <3>0
    <3> QED
      BY <1>1, <3>1, AddTermType
  <2> HIDE DEF S
  <2>3. \A k \in 0..n : k \in S
    BY <1>1, <2>1, <2>2, UpTo
  <2>4. \A k \in 0..n : h[k] \in MemState
    BY <2>3 DEF S
  <2> QED
    BY <2>4
<1> HIDE DEF h
<1> QED
  BY <1>9, <1>10, <1>11 DEF Parses

\* Sums over the terms.
AddsUp(it, n, f) ==
  it = [s \in SUBSET (1..n) |-> IF s = {} THEN 0 ELSE it[s \ {Max(s)}] + f[Max(s)]]

\* h holds the sums of the first numbers of f.
Sums(h, n, f) ==
  /\ h \in [0..n -> Int]
  /\ h[0] = 0
  /\ \A k \in 1..n : h[k] = h[k - 1] + f[k]

\* There is a sum of every sequence.
LEMMA SumExists ==
  ASSUME NEW n \in Nat, NEW f \in [1..n -> Int]
  PROVE  \E it : AddsUp(it, n, f)
<1> DEFINE g == [j \in 1..n |-> [x \in Int |-> x + f[j]]]
<1>1. g \in [1..n -> [Int -> Int]]
  OBVIOUS
<1>0. 0 \in Int
  OBVIOUS
<1> HIDE DEF g
<1>2. PICK it \in [SUBSET (1..n) -> Int] : Folds(it, n, 0, g)
  BY <1>0, <1>1, FoldExists, Zenon
<1>3. ASSUME NEW s \in SUBSET (1..n), s # {}
      PROVE  it[s] = it[s \ {Max(s)}] + f[Max(s)]
  <2>1. Max(s) \in 1..n /\ s \ {Max(s)} \in SUBSET (1..n)
    BY <1>3, MaxOf
  <2>2. it[s] = g[Max(s)][it[s \ {Max(s)}]]
    BY <1>2, <1>3 DEF Folds
  <2> QED
    BY <2>1, <2>2 DEF g
<1>4. it[{}] = 0
  BY <1>2 DEF Folds
<1>5. it = [s \in SUBSET (1..n) |-> it[s]]
  BY <1>2
<1>6. \A s \in SUBSET (1..n) : it[s] = IF s = {} THEN 0 ELSE it[s \ {Max(s)}] + f[Max(s)]
  BY <1>3, <1>4
<1>7. AddsUp(it, n, f)
  BY <1>5, <1>6 DEF AddsUp
<1> QED
  BY <1>7

\* A sum over an interval is made of the sums before it.
LEMMA SumSteps ==
  ASSUME NEW n \in Nat, NEW f \in [1..n -> Int], NEW it, AddsUp(it, n, f)
  PROVE  \E h : Sums(h, n, f) /\ h[n] = it[1..n]
<1> DEFINE h == [k \in 0..n |-> it[1..k]]
<1>1. h[0] = 0
  <2>1. 1..0 = {} /\ {} \in SUBSET (1..n)
    OBVIOUS
  <2>2. it[{}] = 0
    BY <2>1 DEF AddsUp
  <2>3. h[0] = it[1..0]
    OBVIOUS
  <2> QED
    BY <2>1, <2>2, <2>3
<1>2. ASSUME NEW k \in 1..n PROVE h[k] = h[k - 1] + f[k]
  <2>1. Max(1..k) = k /\ (1..k) \ {k} = 1..(k - 1) /\ 1..k # {} /\ 1..k \in SUBSET (1..n)
    BY MaxOfInterval
  <2>2. it[1..k] = it[(1..k) \ {Max(1..k)}] + f[Max(1..k)]
    BY <2>1 DEF AddsUp
  <2>3. h[k] = it[1..k] /\ h[k - 1] = it[1..(k - 1)]
    OBVIOUS
  <2> QED
    BY <2>1, <2>2, <2>3
<1>3. h[n] = it[1..n]
  OBVIOUS
<1>4. h = [k \in 0..n |-> h[k]]
  OBVIOUS
<1> HIDE DEF h
<1>5. h \in [0..n -> Int]
  <2> DEFINE S == {k \in 0..n : h[k] \in Int}
  <2>1. 0 \in S
    BY <1>1
  <2>2. ASSUME NEW k \in 0..(n - 1), k \in S PROVE k + 1 \in S
    <3>1. k + 1 \in 1..n /\ (k + 1) - 1 = k
      OBVIOUS
    <3>2. h[k + 1] = h[k] + f[k + 1] /\ f[k + 1] \in Int /\ h[k] \in Int
      BY <1>2, <2>2, <3>1
    <3> QED
      BY <3>1, <3>2
  <2> HIDE DEF S
  <2>3. \A k \in 0..n : k \in S
    BY <2>1, <2>2, UpTo
  <2>4. \A k \in 0..n : h[k] \in Int
    BY <2>3 DEF S
  <2> QED
    BY <1>4, <2>4
<1> QED
  BY <1>1, <1>2, <1>3, <1>5 DEF Sums

\* The coefficient of a register is the sum over the terms.
LEMMA CoefIs ==
  ASSUME NEW terms \in Seq(Term), NEW r \in RegNum
  PROVE  \E h : /\ Sums(h, Len(terms), [j \in 1..Len(terms) |-> TermCoef(terms[j], r)])
                /\ AddressOf(terms).coef[r] = h[Len(terms)]
<1> DEFINE n == Len(terms)
           f == [j \in 1..n |-> TermCoef(terms[j], r)]
           Right(it) == it = [s \in SUBSET DOMAIN terms |->
                                IF s = {} THEN 0
                                ELSE it[s \ {Max(s)}] + TermCoef(terms[Max(s)], r)]
           iter == CHOOSE it : Right(it)
<1>1. n \in Nat /\ DOMAIN terms = 1..n /\ \A j \in 1..n : terms[j] \in Term
  OBVIOUS
<1>2. f \in [1..n -> Int]
  BY <1>1, TermCoefType
<1>3. ASSUME NEW it PROVE Right(it) <=> AddsUp(it, n, f)
  <2>1. ASSUME NEW s \in SUBSET (1..n), s # {}
        PROVE  f[Max(s)] = TermCoef(terms[Max(s)], r)
    <3>1. Max(s) \in 1..n
      BY <1>1, <2>1, MaxOf
    <3> QED
      BY <3>1
  <2> HIDE DEF f
  <2>2. [s \in SUBSET DOMAIN terms |->
           IF s = {} THEN 0 ELSE it[s \ {Max(s)}] + TermCoef(terms[Max(s)], r)]
        = [s \in SUBSET (1..n) |-> IF s = {} THEN 0 ELSE it[s \ {Max(s)}] + f[Max(s)]]
    BY <1>1, <2>1
  <2> QED
    BY <2>2 DEF AddsUp
<1>4. \E it : Right(it)
  BY <1>1, <1>2, <1>3, SumExists
<1>5. Right(iter)
  BY <1>4, Zenon
<1>6. AddressOf(terms).coef[r] = iter[DOMAIN terms]
  <2>1. AddressOf(terms).coef[r] = FoldLeft(LAMBDA k, term : k + TermCoef(term, r), 0, terms)
    BY DEF AddressOf, RegNum
  <2> QED
    BY <2>1 DEF FoldLeft, MapThenFoldSet
<1> HIDE DEF iter
<1>7. AddsUp(iter, n, f)
  BY <1>3, <1>5
<1> HIDE DEF f
<1>8. PICK h : Sums(h, n, f) /\ h[n] = iter[1..n]
  BY <1>1, <1>2, <1>7, SumSteps
<1> QED
  BY <1>1, <1>6, <1>8 DEF f

\* What a term adds to the displacement.
DispTerm(term) == IF term.k = "disp" THEN term.d ELSE 0

\* The displacement is the sum over the terms.
LEMMA DispSumIs ==
  ASSUME NEW terms \in Seq(Term)
  PROVE  \E h : /\ Sums(h, Len(terms), [j \in 1..Len(terms) |-> DispTerm(terms[j])])
                /\ AddressOf(terms).disp = h[Len(terms)]
<1> DEFINE n == Len(terms)
           f == [j \in 1..n |-> DispTerm(terms[j])]
           Right(it) == it = [s \in SUBSET DOMAIN terms |->
                                IF s = {} THEN 0
                                ELSE it[s \ {Max(s)}] + DispTerm(terms[Max(s)])]
           iter == CHOOSE it : Right(it)
<1>1. n \in Nat /\ DOMAIN terms = 1..n /\ \A j \in 1..n : terms[j] \in Term
  OBVIOUS
<1>2. f \in [1..n -> Int]
  BY <1>1, TermKinds DEF DispTerm
<1>3. ASSUME NEW it PROVE Right(it) <=> AddsUp(it, n, f)
  <2>1. ASSUME NEW s \in SUBSET (1..n), s # {}
        PROVE  f[Max(s)] = DispTerm(terms[Max(s)])
    <3>1. Max(s) \in 1..n
      BY <1>1, <2>1, MaxOf
    <3> QED
      BY <3>1
  <2> HIDE DEF f
  <2>2. [s \in SUBSET DOMAIN terms |->
           IF s = {} THEN 0 ELSE it[s \ {Max(s)}] + DispTerm(terms[Max(s)])]
        = [s \in SUBSET (1..n) |-> IF s = {} THEN 0 ELSE it[s \ {Max(s)}] + f[Max(s)]]
    BY <1>1, <2>1
  <2> QED
    BY <2>2 DEF AddsUp
<1>4. \E it : Right(it)
  BY <1>1, <1>2, <1>3, SumExists
<1>5. Right(iter)
  BY <1>4, Zenon
<1>6. AddressOf(terms).disp = iter[DOMAIN terms]
  BY DEF AddressOf, FoldLeft, MapThenFoldSet, DispTerm
<1> HIDE DEF iter
<1>7. AddsUp(iter, n, f)
  BY <1>3, <1>5
<1> HIDE DEF f
<1>8. PICK h : Sums(h, n, f) /\ h[n] = iter[1..n]
  BY <1>1, <1>2, <1>7, SumSteps
<1> QED
  BY <1>1, <1>6, <1>8 DEF f

-----------------------------------------------------------------------------
(* parse_mem: what it has after k terms.                                   *)

\* The displacements of the terms add up.
LEMMA DispIsWritten ==
  ASSUME NEW terms \in Seq(Term)
  PROVE  ParseMem(terms) \in MemState /\ ParseMem(terms).disp = AddressOf(terms).disp
<1> DEFINE n == Len(terms)
           f == [j \in 1..n |-> DispTerm(terms[j])]
<1>1. n \in Nat /\ \A j \in 1..n : terms[j] \in Term
  OBVIOUS
<1>2. PICK h : Parses(h, terms) /\ ParseMem(terms) = h[n]
  BY ParseMemIs
<1>3. PICK d : Sums(d, n, f) /\ AddressOf(terms).disp = d[n]
  BY DispSumIs
<1> DEFINE S == {k \in 0..n : h[k].disp = d[k]}
<1>4. 0 \in S
  BY <1>1, <1>2, <1>3 DEF Parses, Sums, NoTerms
<1>5. ASSUME NEW k \in 0..(n - 1), k \in S PROVE k + 1 \in S
  <2>1. k + 1 \in 1..n /\ (k + 1) - 1 = k /\ k \in 0..n
    BY <1>1
  <2>2. PICK m \in MemState, term \in Term : m = h[k] /\ term = terms[k + 1]
    BY <1>1, <1>2, <2>1 DEF Parses
  <2>3. h[k + 1] = AddTerm(m, term) /\ d[k + 1] = d[k] + DispTerm(term) /\ m.disp = d[k]
    BY <1>2, <1>3, <1>5, <2>1, <2>2 DEF Parses, Sums
  <2>4. AddTerm(m, term).disp = m.disp + DispTerm(term)
    <3>1. CASE term.k = "disp" /\ term.d \in Int
      BY <3>1 DEF AddTerm, DispTerm, MemState
    <3>2. CASE term.k = "reg" \/ term.k = "scaled"
      <4>1. AddTerm(m, term).disp = m.disp /\ DispTerm(term) = 0
        BY <3>2 DEF AddTerm, DispTerm, MemState
      <4> QED
        BY <4>1 DEF MemState
    <3> QED
      BY <3>1, <3>2, TermKinds
  <2> QED
    BY <2>1, <2>3, <2>4
<1> HIDE DEF S
<1>6. \A k \in 0..n : k \in S
  BY <1>1, <1>4, <1>5, UpTo
<1>7. h[n].disp = d[n] /\ h[n] \in MemState
  BY <1>1, <1>2, <1>6 DEF S, Parses
<1> QED
  BY <1>2, <1>3, <1>7

\* Positions of the terms up to k that are scaled, or registers.
Scaled(terms, k) == {j \in 1..k : terms[j].k = "scaled"}
Plain(terms, k)  == {j \in 1..k : terms[j].k = "reg"}

\* The base is the first register without a scale.
IsBase(terms, k, n, j) ==
  j \in Plain(terms, k) /\ terms[j].n = n /\ \A i \in Plain(terms, k) : j <= i

\* The index is the last of the other registers, with or without a scale.
Others(terms, k) ==
  Scaled(terms, k) \cup {j \in Plain(terms, k) : \E i \in Plain(terms, k) : i < j}

\* The last of a set of terms.
IsLast(S, j) == j \in S /\ \A i \in S : i <= j

\* What parse_mem makes of the first k terms.
Parsed(terms, k, m) ==
  /\ m.base = NoReg => Plain(terms, k) = {}
  /\ m.base # NoReg => \E b \in 1..k : IsBase(terms, k, m.base, b)
  /\ m.index = NoReg => Others(terms, k) = {}
  /\ m.index # NoReg => \E i \in 1..k : IsLast(Others(terms, k), i) /\ terms[i].n = m.index
  /\ Scaled(terms, k) = {} => m.scale = 1
  /\ Scaled(terms, k) # {} =>
       \E i \in 1..k : IsLast(Scaled(terms, k), i) /\ m.scale = terms[i].by % 256

\* One more term.
LEMMA NextTerms ==
  ASSUME NEW terms \in Seq(Term), NEW k \in Nat, k + 1 <= Len(terms)
  PROVE  LET t == terms[k + 1] IN
         /\ Scaled(terms, k + 1) = Scaled(terms, k) \cup (IF t.k = "scaled" THEN {k + 1} ELSE {})
         /\ Plain(terms, k + 1) = Plain(terms, k) \cup (IF t.k = "reg" THEN {k + 1} ELSE {})
         /\ Others(terms, k + 1) =
              Others(terms, k)
                \cup (IF t.k = "scaled" \/ (t.k = "reg" /\ Plain(terms, k) # {}) THEN {k + 1} ELSE {})
<1>1. Scaled(terms, k + 1)
        = Scaled(terms, k) \cup (IF terms[k + 1].k = "scaled" THEN {k + 1} ELSE {})
  BY DEF Scaled
<1>2. Plain(terms, k + 1)
        = Plain(terms, k) \cup (IF terms[k + 1].k = "reg" THEN {k + 1} ELSE {})
  BY DEF Plain
<1>3. \A i \in Plain(terms, k) : i \in 1..k
  BY DEF Plain
<1>4. {j \in Plain(terms, k + 1) : \E i \in Plain(terms, k + 1) : i < j}
        = {j \in Plain(terms, k) : \E i \in Plain(terms, k) : i < j}
            \cup (IF terms[k + 1].k = "reg" /\ Plain(terms, k) # {} THEN {k + 1} ELSE {})
  <2>1. CASE terms[k + 1].k = "reg"
    <3> DEFINE P == Plain(terms, k)
    <3>1. Plain(terms, k + 1) = P \cup {k + 1}
      BY <1>2, <2>1
    <3>2. \A i \in P : i < k + 1 /\ ~(k + 1 < i) /\ ~(k + 1 < k + 1)
      BY <1>3
    <3> HIDE DEF P
    <3> QED
      BY <2>1, <3>1, <3>2 DEF P
  <2>2. CASE terms[k + 1].k # "reg"
    BY <1>2, <2>2
  <2> QED
    BY <2>1, <2>2
<1>5. terms[k + 1].k = "scaled" => terms[k + 1].k # "reg"
  OBVIOUS
<1> QED
  BY <1>1, <1>2, <1>4, <1>5 DEF Others

\* Before the first term.
LEMMA ParsedFirst ==
  ASSUME NEW terms \in Seq(Term)
  PROVE  Parsed(terms, 0, NoTerms)
<1>1. Plain(terms, 0) = {} /\ Scaled(terms, 0) = {}
  BY DEF Plain, Scaled
<1>2. Others(terms, 0) = {}
  BY <1>1 DEF Others
<1> QED
  BY <1>1, <1>2 DEF Parsed, NoTerms

\* One more term keeps what is said of the first ones.
LEMMA ParsedNext ==
  ASSUME NEW terms \in Seq(Term), NEW k \in Nat, k + 1 <= Len(terms),
         NEW m \in MemState, Parsed(terms, k, m)
  PROVE  Parsed(terms, k + 1, AddTerm(m, terms[k + 1]))
<1> DEFINE S == Scaled(terms, k)
           P == Plain(terms, k)
           O == Others(terms, k)
           S1 == Scaled(terms, k + 1)
           P1 == Plain(terms, k + 1)
           O1 == Others(terms, k + 1)
           l == k + 1
<1>0. SUFFICES ASSUME NEW t \in Term, t = terms[k + 1]
               PROVE  Parsed(terms, k + 1, AddTerm(m, t))
  OBVIOUS
<1> DEFINE m1 == AddTerm(m, t)
<1>1. /\ \A i \in S : i \in 1..k
      /\ \A i \in P : i \in 1..k
      /\ \A i \in O : i \in 1..k
  BY DEF Scaled, Plain, Others
<1>2. /\ S1 = S \cup (IF t.k = "scaled" THEN {l} ELSE {})
      /\ P1 = P \cup (IF t.k = "reg" THEN {l} ELSE {})
      /\ O1 = O \cup (IF t.k = "scaled" \/ (t.k = "reg" /\ P # {}) THEN {l} ELSE {})
  BY <1>0, NextTerms
<1>3. /\ m.base = NoReg => P = {}
      /\ m.base # NoReg => \E b \in 1..k : IsBase(terms, k, m.base, b)
      /\ m.index = NoReg => O = {}
      /\ m.index # NoReg => \E i \in 1..k : IsLast(O, i) /\ terms[i].n = m.index
      /\ S = {} => m.scale = 1
      /\ S # {} => \E i \in 1..k : IsLast(S, i) /\ m.scale = terms[i].by % 256
  BY DEF Parsed
<1>4. m.base # NoReg => P # {}
  BY <1>3 DEF IsBase
<1>5. l \in 1..l /\ \A i \in 1..k : i \in 1..l /\ i <= l
  OBVIOUS
<1> HIDE DEF S, P, O, S1, P1, O1, l
<1>6. SUFFICES /\ m1.base = NoReg => P1 = {}
               /\ m1.base # NoReg => \E b \in 1..l : IsBase(terms, l, m1.base, b)
               /\ m1.index = NoReg => O1 = {}
               /\ m1.index # NoReg => \E i \in 1..l : IsLast(O1, i) /\ terms[i].n = m1.index
               /\ S1 = {} => m1.scale = 1
               /\ S1 # {} => \E i \in 1..l : IsLast(S1, i) /\ m1.scale = terms[i].by % 256
  BY Zenon DEF Parsed, S1, P1, O1, l
<1>7. CASE t.k = "disp"
  <2>1. S1 = S /\ P1 = P /\ O1 = O
    BY <1>2, <1>7
  <2>2. m1.base = m.base /\ m1.index = m.index /\ m1.scale = m.scale
    BY <1>7 DEF AddTerm, MemState
  <2>3. \A b \in 1..k : IsBase(terms, k, m.base, b) => IsBase(terms, l, m.base, b)
    BY <2>1 DEF IsBase, P, P1, l
  <2>4. m1.base # NoReg => \E b \in 1..l : IsBase(terms, l, m1.base, b)
    BY <1>3, <1>5, <2>2, <2>3, Zenon
  <2>5. m1.index # NoReg => \E i \in 1..l : IsLast(O1, i) /\ terms[i].n = m1.index
    BY <1>3, <1>5, <2>1, <2>2, Zenon
  <2>6. S1 # {} => \E i \in 1..l : IsLast(S1, i) /\ m1.scale = terms[i].by % 256
    BY <1>3, <1>5, <2>1, <2>2, Zenon
  <2> QED
    BY <1>3, <2>1, <2>2, <2>4, <2>5, <2>6, Zenon
<1>8. CASE t.k = "scaled" /\ t.n \in RegNum
  <2>1. S1 = S \cup {l} /\ P1 = P /\ O1 = O \cup {l}
    BY <1>2, <1>8
  <2>2. m1.base = m.base /\ m1.index = t.n /\ m1.scale = t.by % 256
    BY <1>8 DEF AddTerm, MemState
  <2>3. \A b \in 1..k : IsBase(terms, k, m.base, b) => IsBase(terms, l, m.base, b)
    BY <2>1 DEF IsBase, P, P1, l
  <2>4. IsLast(S1, l) /\ IsLast(O1, l)
    BY <1>1, <1>5, <2>1 DEF IsLast
  <2>5. t = terms[l] /\ S1 # {} /\ m1.index # NoReg
    <3>1. t = terms[l]
      BY <1>0, Zenon DEF l
    <3>2. \A n \in RegNum : n # NoReg
      BY DEF NoReg, RegNum
    <3> QED
      BY <1>8, <2>1, <2>2, <3>1, <3>2, Zenon
  <2>6. m1.base # NoReg => \E b \in 1..l : IsBase(terms, l, m1.base, b)
    BY <1>3, <1>5, <2>2, <2>3, Zenon
  <2> QED
    BY <1>3, <1>5, <2>1, <2>2, <2>4, <2>5, <2>6, Zenon
<1>9. CASE t.k = "reg" /\ t.n \in RegNum /\ m.base = NoReg
  <2>1. S1 = S /\ P1 = {l} /\ O1 = O
    BY <1>2, <1>3, <1>9
  <2>2. m1.base = t.n /\ m1.index = m.index /\ m1.scale = m.scale
    BY <1>9 DEF AddTerm, MemState
  <2>3. t = terms[l] /\ m1.base # NoReg
    BY <1>0, <1>9, <2>2 DEF l, NoReg, RegNum
  <2>4. IsBase(terms, l, m1.base, l)
    BY <1>5, <2>1, <2>2, <2>3 DEF IsBase, P1, l
  <2>5. m1.index # NoReg => \E i \in 1..l : IsLast(O1, i) /\ terms[i].n = m1.index
    BY <1>3, <1>5, <2>1, <2>2, Zenon
  <2>6. S1 # {} => \E i \in 1..l : IsLast(S1, i) /\ m1.scale = terms[i].by % 256
    BY <1>3, <1>5, <2>1, <2>2, Zenon
  <2> QED
    BY <1>3, <1>5, <2>1, <2>2, <2>3, <2>4, <2>5, <2>6, Zenon
<1>10. CASE t.k = "reg" /\ t.n \in RegNum /\ m.base # NoReg
  <2>1. S1 = S /\ P1 = P \cup {l} /\ O1 = O \cup {l}
    BY <1>2, <1>4, <1>10
  <2>2. m1.base = m.base /\ m1.index = t.n /\ m1.scale = m.scale
    BY <1>10 DEF AddTerm, MemState
  <2>3. t = terms[l] /\ m1.index # NoReg
    BY <1>0, <1>10, <2>2 DEF l, NoReg, RegNum
  <2>4. IsLast(O1, l)
    BY <1>1, <1>5, <2>1 DEF IsLast
  <2>5. \A b \in 1..k : IsBase(terms, k, m.base, b) => IsBase(terms, l, m.base, b)
    BY <1>5, <2>1 DEF IsBase, P, P1, l
  <2>6. m1.base # NoReg => \E b \in 1..l : IsBase(terms, l, m1.base, b)
    BY <1>3, <1>5, <2>2, <2>5, Zenon
  <2>7. S1 # {} => \E i \in 1..l : IsLast(S1, i) /\ m1.scale = terms[i].by % 256
    BY <1>3, <1>5, <2>1, <2>2, Zenon
  <2> QED
    BY <1>3, <1>5, <1>10, <2>1, <2>2, <2>3, <2>4, <2>6, <2>7, Zenon
<1> QED
  BY <1>7, <1>8, <1>9, <1>10, TermKinds

-----------------------------------------------------------------------------
(* Sums with few terms.                                                    *)

\* parse_mem: base, index and scale are these of the terms.
LEMMA ParsedIs ==
  ASSUME NEW terms \in Seq(Term)
  PROVE  Parsed(terms, Len(terms), ParseMem(terms))
<1> DEFINE n == Len(terms)
<1>1. n \in Nat
  OBVIOUS
<1>2. PICK h : Parses(h, terms) /\ ParseMem(terms) = h[n]
  BY ParseMemIs
<1> DEFINE S == {k \in 0..n : Parsed(terms, k, h[k])}
<1>3. 0 \in S
  BY <1>1, <1>2, ParsedFirst DEF Parses
<1>4. ASSUME NEW k \in 0..(n - 1), k \in S PROVE k + 1 \in S
  <2>1. k + 1 \in 1..n /\ (k + 1) - 1 = k /\ k \in 0..n /\ k \in Nat /\ k + 1 <= n
    BY <1>1
  <2>2. h[k] \in MemState /\ h[k + 1] = AddTerm(h[k], terms[k + 1])
    BY <1>2, <2>1 DEF Parses
  <2>3. Parsed(terms, k, h[k])
    BY <1>4
  <2>4. Parsed(terms, k + 1, h[k + 1])
    BY <2>1, <2>2, <2>3, ParsedNext
  <2> QED
    BY <2>1, <2>4
<1> HIDE DEF S
<1>5. \A k \in 0..n : k \in S
  BY <1>1, <1>3, <1>4, UpTo
<1>6. Parsed(terms, n, h[n])
  BY <1>1, <1>5 DEF S
<1> QED
  BY <1>2, <1>6

\* What a position adds to the sum of the first k.
Spot(f, x, k) == IF x <= k THEN f[x] ELSE 0

\* A sum is not below that of some of its summands ...
LEMMA SumAtLeast ==
  ASSUME NEW n \in Nat, NEW f \in [1..n -> Nat], NEW h, Sums(h, n, f)
  PROVE  /\ \A a, b \in 1..n : a # b => h[n] >= f[a] + f[b]
         /\ \A a, b, e \in 1..n : a # b /\ a # e /\ b # e => h[n] >= f[a] + f[b] + f[e]
<1>1. h \in [0..n -> Int] /\ h[0] = 0 /\ \A k \in 1..n : h[k] = h[k - 1] + f[k]
  BY DEF Sums
<1>2. ASSUME NEW a \in 1..n, NEW b \in 1..n, a # b
      PROVE  h[n] >= f[a] + f[b]
  <2> DEFINE S == {k \in 0..n : h[k] >= Spot(f, a, k) + Spot(f, b, k)}
  <2>1. 0 \in S
    BY <1>1 DEF Spot
  <2>2. ASSUME NEW k \in 0..(n - 1), k \in S PROVE k + 1 \in S
    <3>1. k + 1 \in 1..n /\ (k + 1) - 1 = k /\ k \in 0..n
      OBVIOUS
    <3>2. h[k + 1] = h[k] + f[k + 1] /\ h[k] \in Int /\ f[k + 1] \in Nat /\ f[a] \in Nat /\ f[b] \in Nat
      BY <1>1, <3>1
    <3>3. h[k] >= Spot(f, a, k) + Spot(f, b, k)
      BY <2>2
    <3>4. h[k + 1] >= Spot(f, a, k + 1) + Spot(f, b, k + 1)
      <4>1. CASE a = k + 1
        BY <1>2, <3>2, <3>3, <4>1 DEF Spot
      <4>2. CASE b = k + 1
        BY <1>2, <3>2, <3>3, <4>2 DEF Spot
      <4>3. CASE a # k + 1 /\ b # k + 1
        BY <3>2, <3>3, <4>3 DEF Spot
      <4> QED
        BY <4>1, <4>2, <4>3
    <3> QED
      BY <3>1, <3>4
  <2> HIDE DEF S
  <2>3. \A k \in 0..n : k \in S
    BY <2>1, <2>2, UpTo
  <2>4. h[n] >= Spot(f, a, n) + Spot(f, b, n)
    BY <2>3 DEF S
  <2> QED
    BY <2>4 DEF Spot
<1>3. ASSUME NEW a \in 1..n, NEW b \in 1..n, NEW e \in 1..n, a # b, a # e, b # e
      PROVE  h[n] >= f[a] + f[b] + f[e]
  <2> DEFINE S == {k \in 0..n : h[k] >= Spot(f, a, k) + Spot(f, b, k) + Spot(f, e, k)}
  <2>1. 0 \in S
    BY <1>1 DEF Spot
  <2>2. ASSUME NEW k \in 0..(n - 1), k \in S PROVE k + 1 \in S
    <3>1. k + 1 \in 1..n /\ (k + 1) - 1 = k /\ k \in 0..n
      OBVIOUS
    <3>2. /\ h[k + 1] = h[k] + f[k + 1] /\ h[k] \in Int /\ f[k + 1] \in Nat
          /\ f[a] \in Nat /\ f[b] \in Nat /\ f[e] \in Nat
      BY <1>1, <3>1
    <3>3. h[k] >= Spot(f, a, k) + Spot(f, b, k) + Spot(f, e, k)
      BY <2>2
    <3>4. h[k + 1] >= Spot(f, a, k + 1) + Spot(f, b, k + 1) + Spot(f, e, k + 1)
      <4>1. CASE a = k + 1
        BY <1>3, <3>2, <3>3, <4>1 DEF Spot
      <4>2. CASE b = k + 1
        BY <1>3, <3>2, <3>3, <4>2 DEF Spot
      <4>3. CASE e = k + 1
        BY <1>3, <3>2, <3>3, <4>3 DEF Spot
      <4>4. CASE a # k + 1 /\ b # k + 1 /\ e # k + 1
        <5>1. /\ Spot(f, a, k + 1) = Spot(f, a, k) /\ Spot(f, a, k) \in Nat
              /\ Spot(f, b, k + 1) = Spot(f, b, k) /\ Spot(f, b, k) \in Nat
              /\ Spot(f, e, k + 1) = Spot(f, e, k) /\ Spot(f, e, k) \in Nat
          BY <3>2, <4>4 DEF Spot
        <5>2. PICK z \in Int : z = Spot(f, a, k) + Spot(f, b, k) + Spot(f, e, k)
          BY <5>1
        <5>3. h[k + 1] >= z
          BY <3>2, <3>3, <5>2
        <5> QED
          BY <5>1, <5>2, <5>3
      <4> QED
        BY <4>1, <4>2, <4>3, <4>4
    <3> QED
      BY <3>1, <3>4
  <2> HIDE DEF S
  <2>3. \A k \in 0..n : k \in S
    BY <2>1, <2>2, UpTo
  <2>4. h[n] >= Spot(f, a, n) + Spot(f, b, n) + Spot(f, e, n)
    BY <2>3 DEF S
  <2> QED
    BY <2>4 DEF Spot
<1> QED
  BY <1>2, <1>3

\* ... and is that of the summands that are not zero.
OnlyAt(f, n, a, b) == \A j \in 1..n : j \notin {a, b} => f[j] = 0

\* The sum x of the two.
SumIs(x, f, a, b) == x = (IF a = b THEN f[a] ELSE f[a] + f[b])

\* The sum of a sequence that is zero but at two places.
LEMMA SumOfFew ==
  ASSUME NEW n \in Nat, NEW f \in [1..n -> Nat], NEW h, Sums(h, n, f),
         NEW a \in 1..n, NEW b \in 1..n, OnlyAt(f, n, a, b)
  PROVE  SumIs(h[n], f, a, b)
<1>1. h \in [0..n -> Int] /\ h[0] = 0 /\ \A k \in 1..n : h[k] = h[k - 1] + f[k]
  BY DEF Sums
<1> DEFINE T(k) == IF a = b THEN Spot(f, a, k) ELSE Spot(f, a, k) + Spot(f, b, k)
           S == {k \in 0..n : h[k] = T(k)}
<1>2. 0 \in S
  BY <1>1 DEF Spot
<1>3. ASSUME NEW k \in 0..(n - 1), k \in S PROVE k + 1 \in S
  <2>1. k + 1 \in 1..n /\ (k + 1) - 1 = k /\ k \in 0..n
    OBVIOUS
  <2>2. /\ h[k + 1] = h[k] + f[k + 1] /\ h[k] \in Int /\ f[k + 1] \in Nat
        /\ f[a] \in Nat /\ f[b] \in Nat
    BY <1>1, <2>1
  <2>3. h[k] = T(k)
    BY <1>3
  <2>4. h[k + 1] = T(k + 1)
    <3>1. CASE a = k + 1
      BY <2>2, <2>3, <3>1 DEF Spot
    <3>2. CASE b = k + 1
      BY <2>2, <2>3, <3>2 DEF Spot
    <3>3. CASE a # k + 1 /\ b # k + 1
      <4>1. f[k + 1] = 0
        BY <2>1, <3>3 DEF OnlyAt
      <4> QED
        BY <2>2, <2>3, <3>3, <4>1 DEF Spot
    <3> QED
      BY <3>1, <3>2, <3>3
  <2> QED
    BY <2>1, <2>4
<1> HIDE DEF S, T
<1>4. \A k \in 0..n : k \in S
  BY <1>2, <1>3, UpTo
<1>5. h[n] = T(n)
  BY <1>4 DEF S
<1> QED
  BY <1>5 DEF T, Spot, SumIs

\* A set of at most two with two in it is these two.
LEMMA TwoOf ==
  ASSUME NEW S, IsFiniteSet(S), NEW a \in S, NEW b \in S, a # b
  PROVE  Cardinality(S) <= 2 <=> S = {a, b}
<1> DEFINE T == S \ {a}
           U == T \ {b}
<1>1. IsFiniteSet(T) /\ IsFiniteSet(U)
  BY FS_Subset
<1>2. Cardinality(T) = Cardinality(S) - 1
  BY FS_RemoveElement
<1>3. b \in T
  OBVIOUS
<1>4. Cardinality(U) = Cardinality(T) - 1
  BY <1>1, <1>3, FS_RemoveElement
<1>5. Cardinality(S) \in Nat /\ Cardinality(T) \in Nat /\ Cardinality(U) \in Nat
  BY <1>1, FS_CardinalityType
<1>6. Cardinality(U) = 0 <=> U = {}
  BY <1>1, FS_EmptySet
<1>7. U = {} <=> S = {a, b}
  OBVIOUS
<1> HIDE DEF T, U
<1> QED
  BY <1>2, <1>4, <1>5, <1>6, <1>7

-----------------------------------------------------------------------------
(* parse_mem: the address that is encoded.                                 *)

\* How often an address as parsed adds register r.
Decoded(m, r) ==
  (IF r = m.base THEN 1 ELSE 0) + (IF m.index # NoReg /\ r = m.index THEN m.scale ELSE 0)

\* A scale of more than eight bits.
CutTerm(term) == term.k = "scaled" /\ term.by > 255

\* The registers of an address are finitely many.
LEMMA RegistersType ==
  ASSUME NEW terms \in Seq(Term)
  PROVE  /\ Registers(terms) \in SUBSET (1..Len(terms))
         /\ IsFiniteSet(Registers(terms))
         /\ Cardinality(Registers(terms)) \in Nat
<1>1. Registers(terms) \in SUBSET (1..Len(terms))
  BY DEF Registers
<1>2. IsFiniteSet(1..Len(terms))
  BY FS_Interval
<1> QED
  BY <1>1, <1>2, FS_Subset, FS_CardinalityType

\* The terms that are registers have a coefficient, the others none.
LEMMA RegistersAre ==
  ASSUME NEW terms \in Seq(Term), NEW j \in 1..Len(terms)
  PROVE  /\ j \in Registers(terms) <=>
              \/ terms[j].k = "reg"
              \/ terms[j].k = "scaled" /\ terms[j].by # 0
         /\ j \in Registers(terms) => terms[j].n \in RegNum /\ TermCoef(terms[j], terms[j].n) >= 1
         /\ j \notin Registers(terms) => \A r \in RegNum : TermCoef(terms[j], r) = 0
<1>1. PICK t \in Term : t = terms[j]
  OBVIOUS
<1>2. j \in Registers(terms) <=> (t.k = "reg" \/ (t.k = "scaled" /\ t.by # 0))
  BY <1>1 DEF Registers
<1>3. CASE t.k = "reg" /\ t.n \in RegNum
  BY <1>1, <1>2, <1>3 DEF TermCoef
<1>4. CASE t.k = "scaled" /\ t.n \in RegNum /\ t.by \in Nat
  BY <1>1, <1>2, <1>4 DEF TermCoef
<1>5. CASE t.k = "disp" /\ t.d \in Int
  BY <1>1, <1>2, <1>5 DEF TermCoef
<1> QED
  BY <1>3, <1>4, <1>5, TermKinds

\* The number of times a register is written, from those of some of the terms.
LEMMA CoefFacts ==
  ASSUME NEW terms \in Seq(Term), NEW r \in RegNum
  PROVE  LET n == Len(terms)
             f(j) == TermCoef(terms[j], r)
             c == AddressOf(terms).coef[r]
         IN  /\ \A j \in 1..n : f(j) \in Nat
             /\ c \in Int
             /\ \A a, b \in 1..n : a # b => c >= f(a) + f(b)
             /\ \A a, b, e \in 1..n : a # b /\ a # e /\ b # e => c >= f(a) + f(b) + f(e)
             /\ \A a, b \in 1..n :
                  Registers(terms) = {a, b} => c = (IF a = b THEN f(a) ELSE f(a) + f(b))
<1> DEFINE n == Len(terms)
           g == [j \in 1..n |-> TermCoef(terms[j], r)]
<1>1. n \in Nat /\ \A j \in 1..n : terms[j] \in Term
  OBVIOUS
<1>2. g \in [1..n -> Nat]
  BY <1>1, TermCoefType
<1>3. \A j \in 1..n : g[j] = TermCoef(terms[j], r)
  OBVIOUS
<1>4. PICK h : Sums(h, n, g) /\ AddressOf(terms).coef[r] = h[n]
  BY CoefIs
<1> HIDE DEF g
<1>5. h[n] \in Int
  BY <1>1, <1>4 DEF Sums
<1>6. /\ \A a, b \in 1..n : a # b => h[n] >= g[a] + g[b]
      /\ \A a, b, e \in 1..n : a # b /\ a # e /\ b # e => h[n] >= g[a] + g[b] + g[e]
  BY <1>1, <1>2, <1>4, SumAtLeast
<1>7. ASSUME NEW a \in 1..n, NEW b \in 1..n, Registers(terms) = {a, b}
      PROVE  h[n] = (IF a = b THEN g[a] ELSE g[a] + g[b])
  <2>1. OnlyAt(g, n, a, b)
    BY <1>3, <1>7, RegistersAre DEF OnlyAt
  <2>2. n \in Nat /\ Sums(h, n, g)
    BY <1>1, <1>4
  <2>3. SumIs(h[n], g, a, b)
    BY <1>2, <2>1, <2>2, SumOfFew, Zenon
  <2> QED
    BY <2>3 DEF SumIs
<1>8. /\ \A a, b \in 1..n : a # b => h[n] >= TermCoef(terms[a], r) + TermCoef(terms[b], r)
      /\ \A a, b, e \in 1..n : a # b /\ a # e /\ b # e =>
           h[n] >= TermCoef(terms[a], r) + TermCoef(terms[b], r) + TermCoef(terms[e], r)
  BY <1>3, <1>6
<1>9. \A a, b \in 1..n : Registers(terms) = {a, b} =>
         h[n] = (IF a = b THEN TermCoef(terms[a], r)
                 ELSE TermCoef(terms[a], r) + TermCoef(terms[b], r))
  BY <1>3, <1>7
<1>10. \A j \in 1..n : TermCoef(terms[j], r) \in Nat
  BY <1>1, TermCoefType
<1> QED
  BY <1>4, <1>5, <1>8, <1>9, <1>10

\* The terms of an address that is encoded: its base b, and its index.
LEMMA BaseTerm ==
  ASSUME NEW terms \in Seq(Term), NEW m, m = ParseMem(terms), m.base # NoReg
  PROVE  \E b \in Registers(terms) :
           /\ terms[b].k = "reg" /\ terms[b].n = m.base
           /\ \A j \in 1..Len(terms) :
                terms[j].k = "reg" /\ j # b => b < j /\ j \in Others(terms, Len(terms))
<1> DEFINE n == Len(terms)
<1>1. n \in Nat /\ Parsed(terms, n, m)
  BY ParsedIs
<1>2. PICK b \in 1..n : IsBase(terms, n, m.base, b)
  BY <1>1 DEF Parsed
<1>3. b \in Plain(terms, n) /\ terms[b].n = m.base /\ \A i \in Plain(terms, n) : b <= i
  BY <1>2 DEF IsBase
<1>4. terms[b].k = "reg"
  BY <1>3 DEF Plain
<1>5. b \in Registers(terms)
  BY <1>4, RegistersAre
<1>6. ASSUME NEW j \in 1..n, terms[j].k = "reg", j # b
      PROVE  b < j /\ j \in Others(terms, n)
  <2>1. j \in Plain(terms, n)
    BY <1>6 DEF Plain
  <2>2. b < j
    BY <1>3, <1>6, <2>1
  <2> QED
    BY <1>3, <2>1, <2>2 DEF Others
<1> QED
  BY <1>3, <1>4, <1>5, <1>6

\* The term that is the index.
LEMMA IndexTerm ==
  ASSUME NEW terms \in Seq(Term), NEW m, m = ParseMem(terms)
  PROVE  /\ m.index = NoReg => Others(terms, Len(terms)) = {}
         /\ m.index # NoReg => \E i \in 1..Len(terms) :
              /\ IsLast(Others(terms, Len(terms)), i)
              /\ terms[i].n = m.index
         /\ Scaled(terms, Len(terms)) = {} => m.scale = 1
         /\ Scaled(terms, Len(terms)) # {} => \E s \in 1..Len(terms) :
              /\ IsLast(Scaled(terms, Len(terms)), s)
              /\ m.scale = terms[s].by % 256
  BY ParsedIs DEF Parsed

\* Every register of an address is encoded, as often as it is written, exactly if there
\* are at most two and no scale is cut.
LEMMA CoefsAreRight ==
  ASSUME NEW terms \in Seq(Term), NEW m, m = ParseMem(terms), m.base # NoReg, MemOk(m)
  PROVE  (\A r \in RegNum : Decoded(m, r) = AddressOf(terms).coef[r])
           <=> /\ Cardinality(Registers(terms)) <= 2
               /\ \A j \in Registers(terms) : ~CutTerm(terms[j])
<1> DEFINE n == Len(terms)
           R == Registers(terms)
           Few == Cardinality(R) <= 2
           Uncut == \A j \in R : ~CutTerm(terms[j])
           c(r) == AddressOf(terms).coef[r]
           f(j, r) == TermCoef(terms[j], r)
<1>1. /\ n \in Nat /\ \A j \in 1..n : terms[j] \in Term
      /\ R \in SUBSET (1..n) /\ IsFiniteSet(R) /\ Cardinality(R) \in Nat
  BY RegistersType
<1>2. PICK b \in R :
        /\ terms[b].k = "reg" /\ terms[b].n = m.base
        /\ \A j \in 1..n : terms[j].k = "reg" /\ j # b => b < j /\ j \in Others(terms, n)
  BY BaseTerm
<1>3. m \in MemState /\ m.base \in RegNum
  <2>1. m \in MemState
    BY DispIsWritten
  <2> QED
    BY <2>1 DEF MemState
<1>4. \A r \in RegNum : f(b, r) = IF r = m.base THEN 1 ELSE 0
  BY <1>2 DEF TermCoef
<1>5. \A j \in Scaled(terms, n) : j \in 1..n /\ terms[j].k = "scaled" /\ j \in Others(terms, n) /\ j # b
  BY <1>2 DEF Scaled, Others
<1>6. \A j \in 1..n : terms[j].k = "scaled" => j \in Scaled(terms, n)
  BY DEF Scaled
<1>7. CASE m.index = NoReg
  <2>1. Others(terms, n) = {} /\ Scaled(terms, n) = {}
    BY <1>5, <1>7, IndexTerm
  <2>2. R = {b}
    BY <1>1, <1>2, <1>6, <2>1, RegistersAre
  <2>3. Cardinality(R) = 1
    BY <2>2, FS_Singleton
  <2>4. Few /\ Uncut
    BY <1>2, <2>2, <2>3 DEF CutTerm
  <2>5. ASSUME NEW r \in RegNum PROVE Decoded(m, r) = c(r)
    <3>1. c(r) = f(b, r)
      <4>1. R = {b, b} /\ b \in 1..n
        BY <1>1, <2>2
      <4> QED
        BY <4>1, CoefFacts
    <3> QED
      BY <1>4, <1>7, <3>1 DEF Decoded
  <2> QED
    BY <2>4, <2>5
<1>8. CASE m.index # NoReg /\ Scaled(terms, n) = {}
  <2>1. PICK i \in 1..n : IsLast(Others(terms, n), i) /\ terms[i].n = m.index
    BY <1>8, IndexTerm
  <2>2. m.scale = 1 /\ Uncut
    BY <1>1, <1>6, <1>8, IndexTerm DEF CutTerm
  <2>3. terms[i].k = "reg" /\ i # b /\ i \in R
    <3>1. i \in Others(terms, n)
      BY <2>1 DEF IsLast
    <3>2. i \in Plain(terms, n) /\ \E j \in Plain(terms, n) : j < i
      BY <1>8, <3>1 DEF Others
    <3>3. terms[i].k = "reg"
      BY <3>2 DEF Plain
    <3>4. PICK j \in Plain(terms, n) : j < i
      BY <3>2
    <3>5. j \in 1..n /\ terms[j].k = "reg"
      BY DEF Plain
    <3>6. i # b
      BY <1>1, <1>2, <3>4, <3>5
    <3> QED
      BY <3>3, <3>6, RegistersAre
  <2>4. \A r \in RegNum : f(i, r) = IF r = m.index THEN 1 ELSE 0
    BY <2>1, <2>3 DEF TermCoef
  <2>5. \A r \in RegNum : Decoded(m, r) = f(b, r) + f(i, r)
    BY <1>4, <1>8, <2>2, <2>4 DEF Decoded
  <2>6. Few <=> R = {b, i}
    BY <1>1, <2>3, TwoOf
  <2>7. ASSUME R = {b, i}, NEW r \in RegNum PROVE Decoded(m, r) = c(r)
    <3>1. c(r) = f(b, r) + f(i, r)
      BY <1>1, <2>3, <2>7, CoefFacts
    <3> QED
      BY <2>5, <3>1
  <2>8. ASSUME R # {b, i} PROVE \E r \in RegNum : Decoded(m, r) # c(r)
    <3>1. PICK e \in R : e # b /\ e # i
      BY <2>3, <2>8
    <3>2. PICK r \in RegNum : r = terms[e].n /\ f(e, r) >= 1
      BY <1>1, RegistersAre
    <3>3. c(r) >= f(b, r) + f(i, r) + f(e, r) /\ c(r) \in Int /\ f(e, r) \in Nat
      BY <1>1, <2>3, <3>1, CoefFacts
    <3>4. f(b, r) \in Nat /\ f(i, r) \in Nat
      BY <1>1, <2>3, CoefFacts
    <3> QED
      BY <2>5, <3>2, <3>3, <3>4
  <2> QED
    BY <2>2, <2>6, <2>7, <2>8
<1>9. CASE m.index # NoReg /\ Scaled(terms, n) # {}
  <2>1. PICK i \in 1..n : IsLast(Others(terms, n), i) /\ terms[i].n = m.index
    BY <1>9, IndexTerm
  <2>2. PICK s \in 1..n : IsLast(Scaled(terms, n), s) /\ m.scale = terms[s].by % 256
    BY <1>9, IndexTerm
  <2>3. /\ s \in Scaled(terms, n) /\ \A j \in Scaled(terms, n) : j <= s
        /\ i \in Others(terms, n) /\ \A j \in Others(terms, n) : j <= i
    BY <2>1, <2>2 DEF IsLast
  <2>4. terms[s].k = "scaled" /\ s # b /\ s <= i
    BY <1>5, <2>3
  <2>5. PICK x \in Nat, so \in RegNum : x = terms[s].by /\ so = terms[s].n
    BY <1>1, <2>4, TermKinds
  <2>6. m.scale \in {1, 2, 4, 8}
    BY <1>9 DEF MemOk
  <2>7. x >= 1 /\ m.scale <= x /\ m.scale \in Nat /\ (x > 255 => m.scale < x) /\ (x <= 255 => m.scale = x)
    BY <2>2, <2>5, <2>6
  <2>8. s \in R
    BY <2>4, <2>5, <2>7, RegistersAre
  <2>9. \A r \in RegNum : f(s, r) = IF r = so THEN x ELSE 0
    BY <2>4, <2>5 DEF TermCoef
  <2>10. \A r \in RegNum : Decoded(m, r) = f(b, r) + (IF r = m.index THEN m.scale ELSE 0)
    BY <1>4, <1>9 DEF Decoded
  <2>11. \A r \in RegNum : f(b, r) \in Nat
    BY <1>1, CoefFacts
  <2>12. Few <=> R = {b, s}
    BY <1>1, <2>4, <2>8, TwoOf
  <2>13. ASSUME so # m.index PROVE Decoded(m, so) # c(so)
    <3>1. c(so) >= f(b, so) + f(s, so) /\ c(so) \in Int
      BY <1>1, <2>4, CoefFacts
    <3> QED
      BY <2>7, <2>9, <2>10, <2>11, <2>13, <3>1
  <2>14. ASSUME R # {b, s}, so = m.index PROVE \E r \in RegNum : Decoded(m, r) # c(r)
    <3>1. PICK e \in R : e # b /\ e # s
      BY <2>8, <2>14
    <3>2. PICK r \in RegNum : r = terms[e].n /\ f(e, r) >= 1
      BY <1>1, RegistersAre
    <3>3. c(r) >= f(b, r) + f(s, r) + f(e, r) /\ c(r) \in Int /\ f(e, r) \in Nat
      BY <1>1, <2>4, <2>8, <3>1, CoefFacts
    <3>4. PICK d \in Nat, y \in Nat : d = f(b, r) /\ y = m.scale
      BY <2>7, <2>11
    <3>5. Decoded(m, r) = d + (IF r = so THEN y ELSE 0) /\ f(s, r) = (IF r = so THEN x ELSE 0)
      BY <2>9, <2>10, <2>14, <3>4
    <3>6. c(r) >= d + f(s, r) + 1
      BY <3>2, <3>3, <3>4, <3>5
    <3>7. Decoded(m, r) # c(r)
      BY <2>7, <3>3, <3>4, <3>5, <3>6
    <3> QED
      BY <3>7
  <2>15. ASSUME R = {b, s}, ~Uncut PROVE Decoded(m, so) # c(so)
    <3>1. x > 255
      BY <1>2, <2>5, <2>15 DEF CutTerm
    <3>2. c(so) >= f(b, so) + f(s, so) /\ c(so) \in Int
      BY <1>1, <2>4, CoefFacts
    <3> QED
      BY <2>7, <2>9, <2>10, <2>11, <3>1, <3>2
  <2>16. ASSUME R = {b, s}, Uncut, NEW r \in RegNum PROVE Decoded(m, r) = c(r)
    <3>1. x <= 255
      BY <2>4, <2>5, <2>8, <2>16 DEF CutTerm
    <3>2. i = s
      <4>1. terms[i].k = "scaled" \/ terms[i].k = "reg"
        <5>1. i \in Scaled(terms, n) \/ i \in Plain(terms, n)
          BY <2>3 DEF Others
        <5> QED
          BY <5>1 DEF Scaled, Plain
      <4>2. CASE terms[i].k = "scaled"
        BY <1>6, <2>3, <2>4, <4>2
      <4>3. CASE terms[i].k = "reg"
        <5>1. i \in R
          BY <4>3, RegistersAre
        <5>2. i = b
          BY <2>4, <2>16, <4>3, <5>1
        <5>3. \E j \in Plain(terms, n) : j < b
          <6>1. i \notin Scaled(terms, n)
            BY <1>5, <5>2
          <6> QED
            BY <2>3, <5>2, <6>1 DEF Others
        <5>4. PICK j \in 1..n : terms[j].k = "reg" /\ j < b
          BY <5>3 DEF Plain
        <5>5. FALSE
          BY <1>1, <1>2, <5>4
        <5> QED
          BY <5>5
      <4> QED
        BY <4>1, <4>2, <4>3
    <3>3. so = m.index
      BY <2>1, <2>5, <3>2
    <3>4. c(r) = f(b, r) + f(s, r)
      BY <1>1, <2>4, <2>16, CoefFacts
    <3> QED
      BY <2>7, <2>9, <2>10, <3>1, <3>3, <3>4
  <2> QED
    BY <2>5, <2>12, <2>13, <2>14, <2>15, <2>16
<1> QED
  BY <1>7, <1>8, <1>9

\* The address that is encoded is the one written exactly if this holds.
AddressKept(terms) ==
  /\ Cardinality(Registers(terms)) <= 2
  /\ \A j \in Registers(terms) : ~CutTerm(terms[j])
  /\ ~AddressOf(terms).narrow

\* parse_mem: an address of any number of terms is the address that is encoded, unless
\* a third register is lost, a scale is cut or a register has 32 bits.
THEOREM AddressIsRight ==
  ASSUME NEW terms \in Seq(Term), ParseMem(terms).base # NoReg, MemOk(ParseMem(terms))
  PROVE  /\ ParseMem(terms) \in MemForm
         /\ MemAddress(ParseMem(terms)) = AddressOf(terms) <=> AddressKept(terms)
<1> DEFINE m == ParseMem(terms)
           a == AddressOf(terms)
<1>1. m \in MemState /\ m.disp = a.disp
  BY DispIsWritten
<1>2. m \in MemForm
  BY <1>1 DEF MemState, MemForm
<1>3. (\A r \in RegNum : Decoded(m, r) = a.coef[r])
        <=> /\ Cardinality(Registers(terms)) <= 2
            /\ \A j \in Registers(terms) : ~CutTerm(terms[j])
  BY CoefsAreRight
<1>4. a.coef = [r \in RegNum |-> a.coef[r]] /\ a.narrow \in BOOLEAN /\ a.rip = FALSE
      /\ a = [coef |-> a.coef, disp |-> a.disp, rip |-> a.rip, narrow |-> a.narrow]
  BY DEF AddressOf, RegNum
<1>5. MemAddress(m) = [coef |-> [r \in RegNum |-> Decoded(m, r)], disp |-> m.disp,
                       rip |-> FALSE, narrow |-> FALSE]
  BY DEF MemAddress, Decoded
<1> HIDE DEF m, a
<1>6. MemAddress(m) = a <=> [r \in RegNum |-> Decoded(m, r)] = a.coef /\ a.narrow = FALSE
  BY <1>1, <1>4, <1>5
<1>7. [r \in RegNum |-> Decoded(m, r)] = a.coef <=> \A r \in RegNum : Decoded(m, r) = a.coef[r]
  BY <1>4
<1> QED
  BY <1>2, <1>3, <1>4, <1>6, <1>7 DEF AddressKept, m, a

-----------------------------------------------------------------------------
(* What the opcodes mean.                                                  *)

\* The size of an operand, by REX.W, and a general register of it.
SizeOf(w) == IF w THEN 8 ELSE 4
RegOperand(n, w) == <<"reg", n, SizeOf(w)>>

\* What the instruction d is if its one opcode byte is op, its digit q, its operands
\* register r and register or memory x, or an immediate.
OneByteMeans(op, q, r, x, imm, imm8, d) ==
  /\ \A k \in 0..7 : op = 8 * k + 1 => d = Cpu!Instr(Cpu!Arithmetic[k + 1], <<x, r>>)
  /\ \A k \in 0..7 : op = 8 * k + 3 => d = Cpu!Instr(Cpu!Arithmetic[k + 1], <<r, x>>)
  /\ op = 129 => d = Cpu!Instr(Cpu!Arithmetic[q + 1], <<x, imm>>)
  /\ op = 133 => d = Cpu!Instr("test", <<x, r>>)
  /\ op = 135 => d = Cpu!Instr("xchg", <<x, r>>)
  /\ op = 137 => d = Cpu!Instr("mov", <<x, r>>)
  /\ op = 139 => d = Cpu!Instr("mov", <<r, x>>)
  /\ op = 141 => d = Cpu!Instr("lea", <<r, x>>)
  /\ op = 193 => d = Cpu!Instr(Cpu!Shifts[q + 1], <<x, imm8>>)
  /\ op = 199 => d = Cpu!Instr("mov", <<x, imm>>)
  /\ op = 211 => d = Cpu!Instr(Cpu!Shifts[q + 1], <<x, <<"reg", 1, 1>>>>)
  /\ op = 247 /\ q = 0 => d = Cpu!Instr("test", <<x, imm>>)
  /\ op = 247 /\ q = 2 => d = Cpu!Instr("not", <<x>>)
  /\ op = 247 /\ q = 3 => d = Cpu!Instr("neg", <<x>>)
  /\ op = 255 /\ q = 0 => d = Cpu!Instr("inc", <<x>>)
  /\ op = 255 /\ q = 1 => d = Cpu!Instr("dec", <<x>>)

\* The decoder, at an opcode of one byte.
LEMMA OneByteIs ==
  ASSUME NEW s, NEW w \in BOOLEAN, NEW reg, NEW rm, NEW rest, Reads(s, <<>>, w, reg, rm, rest)
  PROVE  OneByteMeans(Cpu!Opcode(s), Low(reg), RegOperand(reg, w), RmOperand(rm, SizeOf(w)),
                      Cpu!Imm32(rest, SizeOf(w)), Cpu!Imm8(rest), Cpu!OneByte(s))
<1> DEFINE op  == Cpu!Opcode(s)
           r   == RegOperand(reg, w)
           x   == RmOperand(rm, SizeOf(w))
           imm == Cpu!Imm32(rest, SizeOf(w))
<1>1. Cpu!Width(s) = SizeOf(w) /\ SizeOf(w) \in Nat
  BY Zenon DEF Reads, Cpu!Width, SizeOf
<1>2. /\ Cpu!Gp(Cpu!RegOf(s), Cpu!Width(s)) = r
      /\ Cpu!RmGp(s, Cpu!Width(s)) = x
      /\ Cpu!Imm32(Cpu!Rest(s), Cpu!Width(s)) = imm
      /\ Cpu!Imm8(Cpu!Rest(s)) = Cpu!Imm8(rest)
      /\ Cpu!Digit(s) = Low(reg)
      /\ Cpu!Gp(1, 1) = <<"reg", 1, 1>>
  BY <1>1, Zenon DEF Reads, RegOperand, Cpu!Gp
<1> HIDE DEF r, x, imm
<1>3. ASSUME NEW k \in 0..7, op = 8 * k + 1
      PROVE  Cpu!OneByte(s) = Cpu!Instr(Cpu!Arithmetic[k + 1], <<x, r>>)
  <2>1. CASE k = 0
    <3>1. op = 1
      BY <1>3, <2>1
    <3> QED
      BY <1>2, <2>1, <3>1 DEF Cpu!OneByte
  <2>2. CASE k = 1
    <3>1. op = 9
      BY <1>3, <2>2
    <3> QED
      BY <1>2, <2>2, <3>1 DEF Cpu!OneByte
  <2>3. CASE k = 2
    <3>1. op = 17
      BY <1>3, <2>3
    <3> QED
      BY <1>2, <2>3, <3>1 DEF Cpu!OneByte
  <2>4. CASE k = 3
    <3>1. op = 25
      BY <1>3, <2>4
    <3> QED
      BY <1>2, <2>4, <3>1 DEF Cpu!OneByte
  <2>5. CASE k = 4
    <3>1. op = 33
      BY <1>3, <2>5
    <3> QED
      BY <1>2, <2>5, <3>1 DEF Cpu!OneByte
  <2>6. CASE k = 5
    <3>1. op = 41
      BY <1>3, <2>6
    <3> QED
      BY <1>2, <2>6, <3>1 DEF Cpu!OneByte
  <2>7. CASE k = 6
    <3>1. op = 49
      BY <1>3, <2>7
    <3> QED
      BY <1>2, <2>7, <3>1 DEF Cpu!OneByte
  <2>8. CASE k = 7
    <3>1. op = 57
      BY <1>3, <2>8
    <3> QED
      BY <1>2, <2>8, <3>1 DEF Cpu!OneByte
  <2> QED
    BY <2>1, <2>2, <2>3, <2>4, <2>5, <2>6, <2>7, <2>8
<1>4. ASSUME NEW k \in 0..7, op = 8 * k + 3
      PROVE  Cpu!OneByte(s) = Cpu!Instr(Cpu!Arithmetic[k + 1], <<r, x>>)
  <2>1. CASE k = 0
    <3>1. op = 3
      BY <1>4, <2>1
    <3> QED
      BY <1>2, <2>1, <3>1 DEF Cpu!OneByte
  <2>2. CASE k = 1
    <3>1. op = 11
      BY <1>4, <2>2
    <3> QED
      BY <1>2, <2>2, <3>1 DEF Cpu!OneByte
  <2>3. CASE k = 2
    <3>1. op = 19
      BY <1>4, <2>3
    <3> QED
      BY <1>2, <2>3, <3>1 DEF Cpu!OneByte
  <2>4. CASE k = 3
    <3>1. op = 27
      BY <1>4, <2>4
    <3> QED
      BY <1>2, <2>4, <3>1 DEF Cpu!OneByte
  <2>5. CASE k = 4
    <3>1. op = 35
      BY <1>4, <2>5
    <3> QED
      BY <1>2, <2>5, <3>1 DEF Cpu!OneByte
  <2>6. CASE k = 5
    <3>1. op = 43
      BY <1>4, <2>6
    <3> QED
      BY <1>2, <2>6, <3>1 DEF Cpu!OneByte
  <2>7. CASE k = 6
    <3>1. op = 51
      BY <1>4, <2>7
    <3> QED
      BY <1>2, <2>7, <3>1 DEF Cpu!OneByte
  <2>8. CASE k = 7
    <3>1. op = 59
      BY <1>4, <2>8
    <3> QED
      BY <1>2, <2>8, <3>1 DEF Cpu!OneByte
  <2> QED
    BY <2>1, <2>2, <2>3, <2>4, <2>5, <2>6, <2>7, <2>8
<1>5. op = 129 => Cpu!OneByte(s) = Cpu!Instr(Cpu!Arithmetic[Low(reg) + 1], <<x, imm>>)
  <2>1. op = 129 => Cpu!OneByte(s) = Cpu!Instr(Cpu!Arithmetic[Cpu!Digit(s) + 1], <<x, imm>>)
    BY <1>2 DEF Cpu!OneByte
  <2> QED
    BY <1>2, <2>1, Zenon
<1>6. op = 133 => Cpu!OneByte(s) = Cpu!Instr("test", <<x, r>>)
  BY <1>2 DEF Cpu!OneByte
<1>7. op = 135 => Cpu!OneByte(s) = Cpu!Instr("xchg", <<x, r>>)
  BY <1>2 DEF Cpu!OneByte
<1>8. op = 137 => Cpu!OneByte(s) = Cpu!Instr("mov", <<x, r>>)
  BY <1>2 DEF Cpu!OneByte
<1>9. op = 139 => Cpu!OneByte(s) = Cpu!Instr("mov", <<r, x>>)
  BY <1>2 DEF Cpu!OneByte
<1>10. op = 141 => Cpu!OneByte(s) = Cpu!Instr("lea", <<r, x>>)
  BY <1>2 DEF Cpu!OneByte
<1>11. op = 193 => Cpu!OneByte(s) = Cpu!Instr(Cpu!Shifts[Low(reg) + 1], <<x, Cpu!Imm8(rest)>>)
  BY <1>2 DEF Cpu!OneByte
<1>12. op = 199 => Cpu!OneByte(s) = Cpu!Instr("mov", <<x, imm>>)
  BY <1>2 DEF Cpu!OneByte
<1>13. op = 211 => Cpu!OneByte(s) = Cpu!Instr(Cpu!Shifts[Low(reg) + 1], <<x, <<"reg", 1, 1>>>>)
  BY <1>2 DEF Cpu!OneByte
<1>14. op = 247 /\ Low(reg) = 0 => Cpu!OneByte(s) = Cpu!Instr("test", <<x, imm>>)
  BY <1>2 DEF Cpu!OneByte
<1>15. op = 247 /\ Low(reg) = 2 => Cpu!OneByte(s) = Cpu!Instr("not", <<x>>)
  BY <1>2 DEF Cpu!OneByte
<1>16. op = 247 /\ Low(reg) = 3 => Cpu!OneByte(s) = Cpu!Instr("neg", <<x>>)
  BY <1>2 DEF Cpu!OneByte
<1>17. op = 255 /\ Low(reg) = 0 => Cpu!OneByte(s) = Cpu!Instr("inc", <<x>>)
  BY <1>2 DEF Cpu!OneByte
<1>18. op = 255 /\ Low(reg) = 1 => Cpu!OneByte(s) = Cpu!Instr("dec", <<x>>)
  BY <1>2 DEF Cpu!OneByte
<1> QED
  BY <1>3, <1>4, <1>5, <1>6, <1>7, <1>8, <1>9, <1>10, <1>11, <1>12, <1>13, <1>14, <1>15,
     <1>16, <1>17, <1>18, Zenon DEF OneByteMeans, op, r, x, imm

\* What the instruction d is if its second opcode byte is op and its prefix P, its
\* operands register r or v and register or memory x, y, z or h.
TwoBytesMean(op, P, w, r, v, x, y, z, h, d) ==
  /\ op = 16 => d = Cpu!Instr(Cpu!Move(P), <<v, y>>)
  /\ op = 17 => d = Cpu!Instr(Cpu!Move(P), <<y, v>>)
  /\ op = 40 => d = Cpu!Instr(IF P = 0 THEN "movaps" ELSE "movapd", <<v, y>>)
  /\ op = 41 => d = Cpu!Instr(IF P = 0 THEN "movaps" ELSE "movapd", <<y, v>>)
  /\ op = 42 => d = Cpu!Instr(Cpu!ByPrefix(P, <<"?", "?", "cvtsi2ss", "cvtsi2sd">>), <<v, x>>)
  /\ op = 44 => d = Cpu!Instr(Cpu!ByPrefix(P, <<"?", "?", "cvttss2si", "cvttsd2si">>), <<r, y>>)
  /\ op = 87 => d = Cpu!Instr(Cpu!ByPrefix(P, <<"xorps", "xorpd", "?", "?">>), <<v, y>>)
  /\ op = 88 => d = Cpu!Instr(Cpu!ByPrefix(P, <<"addps", "addpd", "addss", "addsd">>), <<v, y>>)
  /\ op = 89 => d = Cpu!Instr(Cpu!ByPrefix(P, <<"mulps", "mulpd", "mulss", "mulsd">>), <<v, y>>)
  /\ op = 92 => d = Cpu!Instr(Cpu!ByPrefix(P, <<"subps", "subpd", "subss", "subsd">>), <<v, y>>)
  /\ op = 94 => d = Cpu!Instr(Cpu!ByPrefix(P, <<"divps", "divpd", "divss", "divsd">>), <<v, y>>)
  /\ op = 110 => d = Cpu!Instr(IF w THEN "movq" ELSE "movd", <<v, x>>)
  /\ op = 126 /\ P = 102 => d = Cpu!Instr(IF w THEN "movq" ELSE "movd", <<x, v>>)
  /\ op = 126 /\ P = 243 => d = Cpu!Instr("movq", <<v, y>>)
  /\ op = 175 => d = Cpu!Instr("imul", <<r, x>>)
  /\ op = 182 => d = Cpu!Instr("movzx", <<r, z>>)
  /\ op = 183 => d = Cpu!Instr("movzx", <<r, h>>)
  /\ op = 190 => d = Cpu!Instr("movsx", <<r, z>>)
  /\ op = 191 => d = Cpu!Instr("movsx", <<r, h>>)

\* The decoder, at an opcode of two bytes.
LEMMA TwoBytesIs ==
  ASSUME NEW s, NEW w \in BOOLEAN, NEW p, NEW reg, NEW rm, NEW rest, Reads(s, p, w, reg, rm, rest)
  PROVE  TwoBytesMean(Cpu!Opcode(s), PrefixByte(p), w, RegOperand(reg, w), <<"xmm", reg>>,
                      RmOperand(rm, SizeOf(w)), XmmOperand(rm), ByteOperand(w, reg, rm),
                      RmOperand(rm, 2), Cpu!TwoBytes(s))
<1> DEFINE op == Cpu!Opcode(s)
           P  == PrefixByte(p)
           r  == RegOperand(reg, w)
           v  == <<"xmm", reg>>
           x  == RmOperand(rm, SizeOf(w))
           y  == XmmOperand(rm)
           z  == ByteOperand(w, reg, rm)
           h  == RmOperand(rm, 2)
<1>1. Cpu!Width(s) = SizeOf(w) /\ SizeOf(w) \in Nat
  BY Zenon DEF Reads, Cpu!Width, SizeOf
<1>2. /\ Cpu!Gp(Cpu!RegOf(s), Cpu!Width(s)) = r
      /\ <<"xmm", Cpu!RegOf(s)>> = v
      /\ Cpu!RmGp(s, Cpu!Width(s)) = x
      /\ Cpu!RmXmm(s) = y
      /\ Cpu!RmByte(s) = z
      /\ Cpu!Legacy(s) = P
      /\ Cpu!W(s) <=> w
  BY <1>1, Zenon DEF Reads, RegOperand, Cpu!Gp
<1>3. Cpu!RmGp(s, 2) = h
  BY DEF Reads
<1> HIDE DEF P, r, v, x, y, z, h
<1>4. op = 16 =>
       Cpu!TwoBytes(s) = Cpu!Instr(Cpu!Move(P), <<v, y>>)
  BY <1>2, <1>3 DEF Cpu!TwoBytes
<1>5. op = 17 =>
       Cpu!TwoBytes(s) = Cpu!Instr(Cpu!Move(P), <<y, v>>)
  BY <1>2, <1>3 DEF Cpu!TwoBytes
<1>6. op = 40 =>
       Cpu!TwoBytes(s) = Cpu!Instr(IF P = 0 THEN "movaps" ELSE "movapd", <<v, y>>)
  BY <1>2, <1>3 DEF Cpu!TwoBytes
<1>7. op = 41 =>
       Cpu!TwoBytes(s) = Cpu!Instr(IF P = 0 THEN "movaps" ELSE "movapd", <<y, v>>)
  BY <1>2, <1>3 DEF Cpu!TwoBytes
<1>8. op = 42 =>
       Cpu!TwoBytes(s) = Cpu!Instr(Cpu!ByPrefix(P, <<"?", "?", "cvtsi2ss", "cvtsi2sd">>), <<v, x>>)
  BY <1>2, <1>3 DEF Cpu!TwoBytes
<1>9. op = 44 =>
       Cpu!TwoBytes(s) = Cpu!Instr(Cpu!ByPrefix(P, <<"?", "?", "cvttss2si", "cvttsd2si">>), <<r, y>>)
  BY <1>2, <1>3 DEF Cpu!TwoBytes
<1>10. op = 87 =>
       Cpu!TwoBytes(s) = Cpu!Instr(Cpu!ByPrefix(P, <<"xorps", "xorpd", "?", "?">>), <<v, y>>)
  BY <1>2, <1>3 DEF Cpu!TwoBytes
<1>11. op = 88 =>
       Cpu!TwoBytes(s) = Cpu!Instr(Cpu!ByPrefix(P, <<"addps", "addpd", "addss", "addsd">>), <<v, y>>)
  BY <1>2, <1>3 DEF Cpu!TwoBytes
<1>12. op = 89 =>
       Cpu!TwoBytes(s) = Cpu!Instr(Cpu!ByPrefix(P, <<"mulps", "mulpd", "mulss", "mulsd">>), <<v, y>>)
  BY <1>2, <1>3 DEF Cpu!TwoBytes
<1>13. op = 92 =>
       Cpu!TwoBytes(s) = Cpu!Instr(Cpu!ByPrefix(P, <<"subps", "subpd", "subss", "subsd">>), <<v, y>>)
  BY <1>2, <1>3 DEF Cpu!TwoBytes
<1>14. op = 94 =>
       Cpu!TwoBytes(s) = Cpu!Instr(Cpu!ByPrefix(P, <<"divps", "divpd", "divss", "divsd">>), <<v, y>>)
  BY <1>2, <1>3 DEF Cpu!TwoBytes
<1>15. op = 110 =>
       Cpu!TwoBytes(s) = Cpu!Instr(IF w THEN "movq" ELSE "movd", <<v, x>>)
  BY <1>2, <1>3 DEF Cpu!TwoBytes
<1>16. op = 126 /\ P = 102 =>
       Cpu!TwoBytes(s) = Cpu!Instr(IF w THEN "movq" ELSE "movd", <<x, v>>)
  BY <1>2, <1>3 DEF Cpu!TwoBytes
<1>17. op = 126 /\ P = 243 =>
       Cpu!TwoBytes(s) = Cpu!Instr("movq", <<v, y>>)
  BY <1>2, <1>3 DEF Cpu!TwoBytes
<1>18. op = 175 =>
       Cpu!TwoBytes(s) = Cpu!Instr("imul", <<r, x>>)
  BY <1>2, <1>3 DEF Cpu!TwoBytes
<1>19. op = 182 =>
       Cpu!TwoBytes(s) = Cpu!Instr("movzx", <<r, z>>)
  BY <1>2, <1>3 DEF Cpu!TwoBytes
<1>20. op = 183 =>
       Cpu!TwoBytes(s) = Cpu!Instr("movzx", <<r, h>>)
  BY <1>2, <1>3 DEF Cpu!TwoBytes
<1>21. op = 190 =>
       Cpu!TwoBytes(s) = Cpu!Instr("movsx", <<r, z>>)
  BY <1>2, <1>3 DEF Cpu!TwoBytes
<1>22. op = 191 =>
       Cpu!TwoBytes(s) = Cpu!Instr("movsx", <<r, h>>)
  BY <1>2, <1>3 DEF Cpu!TwoBytes
<1> QED
  BY <1>4, <1>5, <1>6, <1>7, <1>8, <1>9, <1>10, <1>11, <1>12, <1>13, <1>14, <1>15, <1>16,
     <1>17, <1>18, <1>19, <1>20, <1>21, <1>22, Zenon
     DEF TwoBytesMean, op, P, r, v, x, y, z, h

-----------------------------------------------------------------------------
(* The forms and the decoder.                                              *)

\* The decoder reads zeros behind the instruction.
LEMMA PaddedIs == \A b : Cpu!Padded(b) = b \o Zeros16
  BY DEF Cpu!Padded, Zeros16

\* What the decoder makes of the bytes of a form RmR.
RmRForm(p, two, op, w, reg, rm) ==
  [form |-> "RmR", prefix |-> p, opcode |-> OpcodeBytes(two, op), w |-> w, reg |-> reg, rm |-> rm]

\* The decoder answers by the number of opcode bytes.
Decodes(d, s, two) == d = IF two THEN Cpu!TwoBytes(s) ELSE Cpu!OneByte(s)

\* Such a form is decoded with the operands it was built with.
LEMMA RmRDecoded ==
  ASSUME NEW w \in BOOLEAN, NEW reg \in RegNum, NEW rm \in RmForm, RmOk(rm),
         NEW p \in LegacyPrefixes, NEW two \in BOOLEAN, NEW op \in Nat, ~two => PlainOpcode(op),
         NEW v
  PROVE  \E s : /\ Reads(s, p, w, reg, rm, Zeros16)
                /\ Cpu!Opcode(s) = op
                /\ Decodes(Cpu!Decode(Build(RmRForm(p, two, op, w, reg, rm), v)), s, two)
<1> DEFINE f == RmRForm(p, two, op, w, reg, rm)
<1>1. PICK oc \in Seq(Nat) : oc = OpcodeBytes(two, op)
  BY OpcodeType
<1>2. PICK e \in Seq(Nat) : e = EmitRm(w, reg, rm, oc)
  BY ZerosAreBytes, EmitIs DEF Emits
<1>3. Build(f, v) = p \o e
  BY <1>1, <1>2 DEF RmRForm, Build
<1>4. p \in Seq(Nat)
  <2>1. CASE p = <<>>
    BY <2>1
  <2>2. CASE p = << 102 >>
    BY <2>2
  <2>3. CASE p = << 242 >>
    BY <2>3
  <2>4. CASE p = << 243 >>
    BY <2>4
  <2> QED
    BY <2>1, <2>2, <2>3, <2>4 DEF LegacyPrefixes
<1> DEFINE s == p \o (e \o Zeros16)
<1>5. Cpu!Padded(p \o e) = s
  <2>1. (p \o e) \o Zeros16 = p \o (e \o Zeros16)
    <3>1. PICK z \in Seq(Nat) : z = Zeros16
      BY ZerosAreBytes
    <3>2. PICK q \in Seq(Nat) : q = p
      BY <1>4
    <3>3. (q \o e) \o z = q \o (e \o z)
      BY Associative, Zenon DEF Groups
    <3> QED
      BY <3>1, <3>2, <3>3
  <2> QED
    BY <2>1, PaddedIs
<1>6. ReadBack(p \o (e \o Zeros16), p, w, reg, rm, two, op, Zeros16)
  <2>1. PICK z \in Seq(Nat) : z = Zeros16
    BY ZerosAreBytes
  <2>2. ReadBack(p \o (EmitRm(w, reg, rm, OpcodeBytes(two, op)) \o z), p, w, reg, rm, two, op, z)
    BY EmittedIsRead
  <2> QED
    BY <1>1, <1>2, <2>1, <2>2
<1>7. Reads(s, p, w, reg, rm, Zeros16) /\ (Cpu!TwoByte(s) <=> two) /\ Cpu!Opcode(s) = op
  BY <1>6, Zenon DEF ReadBack
<1> HIDE DEF s, f
<1>8. Decodes(Cpu!Decode(Build(f, v)), s, two)
  BY <1>3, <1>5, <1>7, Zenon DEF Cpu!Decode, Decodes
<1> QED
  BY <1>7, <1>8, Zenon DEF f

\* And of those of a form RmI.
RmIForm(op, digit, w, rm, width) ==
  [form |-> "RmI", opcode |-> <<op>>, digit |-> digit, w |-> w, rm |-> rm, width |-> width]

\* Resolved immediates.
Values == [1..8 -> 0..255]

\* a is the first n of s.
IsFirst(a, s, n) == a \in Seq(Nat) /\ Len(a) = n /\ (\A i \in 1..n : a[i] = s[i])

\* The first bytes of a sequence.
LEMMA FirstOf ==
  ASSUME NEW s \in Seq(Nat), NEW n \in 1..Len(s)
  PROVE  IsFirst(SubSeq(s, 1, n), s, n)
  BY SMT DEF IsFirst

\* An immediate, byte for byte.
LEMMA ByteOf ==
  ASSUME NEW v \in Values, NEW i \in 1..8
  PROVE  v[i] \in 0..255
  BY DEF Values

LEMMA SameValue ==
  ASSUME NEW u \in Values, NEW v \in Values
  PROVE  u = v <=> \A i \in 1..8 : u[i] = v[i]
  BY DEF Values

\* An immediate is eight bytes.
LEMMA ValueType ==
  ASSUME NEW v \in Values
  PROVE  v \in Seq(Nat) /\ Len(v) = 8 /\ SubSeq(v, 1, 8) = v
<1>1. v \in Seq(Nat) /\ Len(v) = 8
  <2>1. v \in [1..8 -> Nat] /\ 8 \in Nat
    BY SMT DEF Values
  <2>2. \E n2 \in Nat : v \in [1..n2 -> Nat]
    BY <2>1
  <2>3. v \in Seq(Nat)
    BY <2>2, SMT
  <2>4. DOMAIN v = 1..8
    BY <2>1
  <2> QED
    BY <2>3, <2>4, SMT
<1> QED
  BY <1>1

\* append_imm writes the first bytes.
LEMMA ImmType ==
  ASSUME NEW v \in Values, NEW n \in {0, 1, 4, 8}
  PROVE  IsFirst(AppendImm(v, n), v, n)
<1>1. v \in Seq(Nat) /\ Len(v) = 8
  BY ValueType
<1>2. CASE n = 0
  <2>1. AppendImm(v, n) = <<>>
    BY <1>2 DEF AppendImm
  <2>2. <<>> \in Seq(Nat) /\ Len(<<>>) = 0 /\ 1..0 = {}
    OBVIOUS
  <2> QED
    BY <1>2, <2>1, <2>2 DEF IsFirst
<1>3. CASE n # 0
  <2>1. AppendImm(v, n) = SubSeq(v, 1, n)
    BY <1>3 DEF AppendImm
  <2>2. n \in 1..Len(v)
    BY <1>1, <1>3
  <2>3. IsFirst(SubSeq(v, 1, n), v, n)
    BY <1>1, <2>2, FirstOf
  <2> QED
    BY <2>1, <2>3, Zenon
<1> QED
  BY <1>2, <1>3

\* Such a form is decoded with the operand it was built with and the bytes of its immediate.
LEMMA RmIDecoded ==
  ASSUME NEW w \in BOOLEAN, NEW digit \in 0..7, NEW rm \in RmForm, RmOk(rm),
         NEW op \in Nat, PlainOpcode(op), NEW v \in Values, NEW width \in {0, 1, 4}, ImmFits(v, width)
  PROVE  \E s : /\ Reads(s, <<>>, w, digit, rm, AppendImm(v, width) \o Zeros16)
                /\ Cpu!Opcode(s) = op
                /\ Cpu!Decode(Build(RmIForm(op, digit, w, rm, width), v)) = Cpu!OneByte(s)
<1> DEFINE f == RmIForm(op, digit, w, rm, width)
           a == AppendImm(v, width)
<1>1. PICK oc \in Seq(Nat) : oc = OpcodeBytes(FALSE, op)
  BY OpcodeType
<1>2. PICK e \in Seq(Nat) : e = EmitRm(w, digit, rm, oc)
  BY ZerosAreBytes, EmitIs DEF Emits, RegNum
<1>3. Build(f, v) = e \o a
  BY <1>1, <1>2 DEF RmIForm, Build, OpcodeBytes
<1>4. a \in Seq(Nat)
  BY ImmType DEF IsFirst
<1> HIDE DEF a
<1> DEFINE rest == a \o Zeros16
           s == <<>> \o (e \o rest)
<1>5. rest \in Seq(Nat) /\ e \o rest \in Seq(Nat)
  <2>1. rest \in Seq(Nat)
    BY <1>4, ZerosAreBytes, Concat
  <2> HIDE DEF rest
  <2> QED
    BY <2>1, Concat
<1>6. Cpu!Padded(e \o a) = s
  <2>1. (e \o a) \o Zeros16 = e \o (a \o Zeros16)
    BY <1>4, ZerosAreBytes, Associative, Zenon DEF Groups
  <2>2. <<>> \o (e \o rest) = e \o rest
    BY <1>5, ConcatNone
  <2> QED
    BY <2>1, <2>2, PaddedIs
<1>7. /\ Reads(s, <<>>, w, digit, rm, rest)
      /\ ~Cpu!TwoByte(s)
      /\ Cpu!Opcode(s) = op
  <2>1. <<>> \in LegacyPrefixes /\ digit \in RegNum
    BY DEF LegacyPrefixes, RegNum
  <2> HIDE DEF rest
  <2>2. PICK z \in Seq(Nat) : z = rest
    BY <1>5
  <2>3. ReadBack(<<>> \o (EmitRm(w, digit, rm, OpcodeBytes(FALSE, op)) \o z), <<>>, w, digit, rm, FALSE, op, z)
    BY <2>1, EmittedIsRead
  <2> QED
    BY <1>1, <1>2, <2>2, <2>3, Zenon DEF ReadBack
<1> HIDE DEF s, f
<1>8. Cpu!Decode(Build(f, v)) = Cpu!OneByte(s)
  BY <1>3, <1>6, <1>7, Zenon DEF Cpu!Decode
<1> QED
  BY <1>7, <1>8, Zenon DEF f, a

\* The instruction a form RmR of one opcode byte encodes.
LEMMA OneByteForm ==
  ASSUME NEW w \in BOOLEAN, NEW reg \in RegNum, NEW rm \in RmForm, RmOk(rm),
         NEW op \in Nat, PlainOpcode(op), NEW v
  PROVE  \E imm, imm8 :
           OneByteMeans(op, Low(reg), RegOperand(reg, w), RmOperand(rm, SizeOf(w)), imm, imm8,
                        Cpu!Decode(Build(RmRForm(<<>>, FALSE, op, w, reg, rm), v)))
<1>1. <<>> \in LegacyPrefixes
  BY DEF LegacyPrefixes
<1>2. PICK s : /\ Reads(s, <<>>, w, reg, rm, Zeros16)
               /\ Cpu!Opcode(s) = op
               /\ Cpu!Decode(Build(RmRForm(<<>>, FALSE, op, w, reg, rm), v)) = Cpu!OneByte(s)
  <2>1. \E s : /\ Reads(s, <<>>, w, reg, rm, Zeros16)
               /\ Cpu!Opcode(s) = op
               /\ Decodes(Cpu!Decode(Build(RmRForm(<<>>, FALSE, op, w, reg, rm), v)), s, FALSE)
    BY <1>1, RmRDecoded
  <2> QED
    BY <2>1, Zenon DEF Decodes
<1> QED
  BY <1>2, OneByteIs, Zenon

\* And one of two opcode bytes.
LEMMA TwoByteForm ==
  ASSUME NEW w \in BOOLEAN, NEW reg \in RegNum, NEW rm \in RmForm, RmOk(rm),
         NEW p \in LegacyPrefixes, NEW op \in Nat, NEW v
  PROVE  TwoBytesMean(op, PrefixByte(p), w, RegOperand(reg, w), <<"xmm", reg>>,
                      RmOperand(rm, SizeOf(w)), XmmOperand(rm), ByteOperand(w, reg, rm),
                      RmOperand(rm, 2),
                      Cpu!Decode(Build(RmRForm(p, TRUE, op, w, reg, rm), v)))
<1>1. PICK s : /\ Reads(s, p, w, reg, rm, Zeros16)
               /\ Cpu!Opcode(s) = op
               /\ Cpu!Decode(Build(RmRForm(p, TRUE, op, w, reg, rm), v)) = Cpu!TwoBytes(s)
  <2>1. \E s : /\ Reads(s, p, w, reg, rm, Zeros16)
               /\ Cpu!Opcode(s) = op
               /\ Decodes(Cpu!Decode(Build(RmRForm(p, TRUE, op, w, reg, rm), v)), s, TRUE)
    BY RmRDecoded
  <2> QED
    BY <2>1, Zenon DEF Decodes
<1> QED
  BY <1>1, TwoBytesIs, Zenon

-----------------------------------------------------------------------------
(* Immediates.                                                             *)

\* The first bytes of what follows ModRM are those of the immediate.
LEMMA ImmFirst ==
  ASSUME NEW v \in Values, NEW n \in {1, 4}
  PROVE  /\ SubSeq(AppendImm(v, n) \o Zeros16, 1, n) = AppendImm(v, n)
         /\ AppendImm(v, n) = SubSeq(v, 1, n)
<1>1. AppendImm(v, n) = SubSeq(v, 1, n)
  BY DEF AppendImm
<1>2. PICK a \in Seq(Nat) : a = AppendImm(v, n) /\ Len(a) = n
  <2>1. IsFirst(AppendImm(v, n), v, n)
    BY ImmType
  <2> QED
    BY <2>1 DEF IsFirst
<1>3. PICK z \in Seq(Nat) : z = Zeros16
  BY ZerosAreBytes
<1>4. SubSeq(a \o z, 1, n) = a
  <2>1. SubSeq(a \o z, 1, Len(a)) = a
    BY SMT
  <2> QED
    BY <1>2, <2>1
<1> QED
  BY <1>1, <1>2, <1>3, <1>4

\* An immediate of one byte is read as it was.
LEMMA Imm8Is ==
  ASSUME NEW v \in Values
  PROVE  Cpu!Imm8(AppendImm(v, 1) \o Zeros16) = <<"imm", SubSeq(v, 1, 1)>>
  BY ImmFirst DEF Cpu!Imm8

\* An immediate of four bytes is read as the number it was, unless it is an unsigned one
\* with the top bit set, for a qword.
LEMMA Imm32Is ==
  ASSUME NEW v \in Values, NEW size \in {4, 8}, FitsIn(v, 4)
  PROVE  Cpu!Imm32(AppendImm(v, 4) \o Zeros16, size) = <<"imm", SubSeq(v, 1, size)>>
           <=> ~(size = 8 /\ Zeros(v, 5) /\ v[4] >= 128)
<1>1. PICK a \in Seq(Nat) : a = AppendImm(v, 4) /\ Len(a) = 4 /\ (\A i \in 1..4 : a[i] = v[i])
  BY ImmType DEF IsFirst
<1>2. SubSeq(AppendImm(v, 4) \o Zeros16, 1, 4) = a
  BY <1>1, ImmFirst
<1>3. PICK e : e = Cpu!SignExtend(a)
  OBVIOUS
<1>4. e = [i \in 1..8 |-> IF i <= 4 THEN a[i] ELSE IF a[4] >= 128 THEN 255 ELSE 0]
  BY <1>1, <1>3 DEF Cpu!SignExtend
<1>5. Cpu!Imm32(AppendImm(v, 4) \o Zeros16, size) = <<"imm", SubSeq(e, 1, size)>>
  BY <1>2, <1>3 DEF Cpu!Imm32
<1>6. e \in Values
  <2> DEFINE f(i) == IF i <= 4 THEN a[i] ELSE IF a[4] >= 128 THEN 255 ELSE 0
  <2>1. ASSUME NEW i \in 1..8 PROVE f(i) \in 0..255
    <3>1. CASE i <= 4
      <4>1. i \in 1..4 /\ i \in 1..8
        BY <3>1
      <4>2. v[i] \in 0..255
        BY <4>1, ByteOf
      <4>3. a[i] = v[i]
        BY <1>1, <4>1
      <4> QED
        BY <3>1, <4>2, <4>3
    <3>2. CASE i > 4
      BY <3>2
    <3> QED
      BY <3>1, <3>2
  <2>2. e = [i \in 1..8 |-> f(i)]
    BY <1>4, Zenon
  <2> HIDE DEF f
  <2>3. e \in [1..8 -> 0..255]
    BY <2>1, <2>2, Zenon
  <2> QED
    BY <2>3 DEF Values
<1>7. CASE size = 4
  <2>1. SubSeq(e, 1, 4) = SubSeq(v, 1, 4)
    <3>1. PICK b \in Seq(Nat) : b = AppendImm(e, 4) /\ Len(b) = 4 /\ (\A i \in 1..4 : b[i] = e[i])
      BY <1>6, ImmType DEF IsFirst
    <3>2. \A i \in 1..4 : b[i] = a[i]
      BY <1>1, <1>4, <3>1
    <3>3. b = a
      <4>1. Len(b) = Len(a) /\ \A i \in 1..Len(a) : b[i] = a[i]
        BY <1>1, <3>1, <3>2
      <4> QED
        BY <4>1, SeqEqual
    <3> QED
      BY <1>1, <3>1, <3>3 DEF AppendImm
  <2> QED
    BY <1>5, <1>7, <2>1
<1>8. CASE size = 8
  <2>1. SubSeq(e, 1, 8) = e /\ SubSeq(v, 1, 8) = v
    BY <1>6, ValueType
  <2>2. e = v <=> ~(Zeros(v, 5) /\ v[4] >= 128)
    <3>1. e = v <=> \A i \in 1..8 : e[i] = v[i]
      BY <1>6, SameValue
    <3>2. (\A i \in 1..8 : e[i] = v[i]) <=> \A i \in 5..8 : v[i] = (IF v[4] >= 128 THEN 255 ELSE 0)
      BY <1>1, <1>4
    <3>3. Zeros(v, 5) \/ (Ones(v, 5) /\ v[4] >= 128)
      BY DEF FitsIn
    <3>4. v[4] \in 0..255
      BY DEF Values
    <3> QED
      BY <3>1, <3>2, <3>3, <3>4 DEF Zeros, Ones
  <2> QED
    <3>1. Cpu!Imm32(AppendImm(v, 4) \o Zeros16, size) = <<"imm", e>> /\ SubSeq(v, 1, size) = v
      BY <1>5, <1>8, <2>1
    <3>2. <<"imm", e>> = <<"imm", v>> <=> e = v
      OBVIOUS
    <3> QED
      BY <1>8, <2>2, <3>1, <3>2
<1> QED
  BY <1>7, <1>8

\* The instruction a form RmI encodes.
LEMMA ImmForm ==
  ASSUME NEW w \in BOOLEAN, NEW digit \in 0..7, NEW rm \in RmForm, RmOk(rm),
         NEW op \in Nat, PlainOpcode(op), NEW v \in Values, NEW width \in {0, 1, 4}, ImmFits(v, width)
  PROVE  \E r : OneByteMeans(op, digit, r, RmOperand(rm, SizeOf(w)),
                             Cpu!Imm32(AppendImm(v, width) \o Zeros16, SizeOf(w)),
                             Cpu!Imm8(AppendImm(v, width) \o Zeros16),
                             Cpu!Decode(Build(RmIForm(op, digit, w, rm, width), v)))
<1>1. PICK s : /\ Reads(s, <<>>, w, digit, rm, AppendImm(v, width) \o Zeros16)
               /\ Cpu!Opcode(s) = op
               /\ Cpu!Decode(Build(RmIForm(op, digit, w, rm, width), v)) = Cpu!OneByte(s)
  BY RmIDecoded
<1>2. Low(digit) = digit
  BY SMT DEF Low
<1> QED
  BY <1>1, <1>2, OneByteIs, Zenon

-----------------------------------------------------------------------------
(* Instructions without ModRM.                                             *)

\* An instruction without ModRM: what the decoder sees.
PlainRead(s, w, b, op, t) ==
  /\ Cpu!Opcode(s) = op
  /\ Cpu!Body(s) = t
  /\ Cpu!W(s) <=> w
  /\ Cpu!Ext(Cpu!Bit(Cpu!RexOf(s), 0)) = 8 * b

\* An instruction without ModRM is read as it was written.
LEMMA PlainDecoded ==
  ASSUME NEW w \in BOOLEAN, NEW b \in {0, 1}, NEW op \in Nat, PlainOpcode(op), NEW a \in Seq(Nat)
  PROVE  \E s : /\ PlainRead(s, w, b, op, a \o Zeros16)
                /\ Cpu!Decode((Rex(w, 0, 0, b) \o <<op>>) \o a) = Cpu!OneByte(s)
<1>1. PICK x \in Seq(Nat) : x = Rex(w, 0, 0, b)
  BY RexType
<1>2. PICK k \in Seq(Nat) : k = <<op>> /\ k = OpcodeBytes(FALSE, op)
  BY ByteThen DEF OpcodeBytes
<1>3. PICK z \in Seq(Nat) : z = Zeros16
  BY ZerosAreBytes
<1>4. PICK t \in Seq(Nat) : t = a \o z
  BY Concat
<1>5. PICK u \in Seq(Nat) : u = k \o t
  BY Concat
<1>6. PICK y \in Seq(Nat) : y = x \o u
  BY Concat
<1> DEFINE s == <<>> \o y
<1>7. Cpu!Padded((x \o k) \o a) = s
  <2>1. Regroups(x, k, a, z)
    BY Regroup
  <2>2. ((x \o k) \o a) \o z = y
    BY <1>4, <1>5, <1>6, <2>1 DEF Regroups
  <2>3. s = y
    BY ConcatNone
  <2> HIDE DEF s
  <2> QED
    BY <1>3, <2>2, <2>3, PaddedIs
<1>8. u[1] = op /\ NotPrefix(u[1]) /\ op # 15
  <2>1. u[1] = op
    BY <1>2, <1>5, OneAhead
  <2> QED
    BY <2>1, SMT DEF PlainOpcode, NotPrefix
<1>9. PrefixesRead(s, <<>>, w, 0, 0, b, u)
  <2>1. <<>> \in LegacyPrefixes /\ 0 \in {0, 1}
    BY DEF LegacyPrefixes
  <2>2. PrefixesRead(<<>> \o (Rex(w, 0, 0, b) \o u), <<>>, w, 0, 0, b, u)
    BY <1>8, <2>1, RexPrefix
  <2> QED
    BY <1>1, <1>6, <2>2
<1> HIDE DEF s
<1>10. Cpu!PastRex(s) = OpcodeBytes(FALSE, op) \o t
  BY <1>2, <1>5, <1>9 DEF PrefixesRead
<1>11. ~Cpu!TwoByte(s) /\ Cpu!Opcode(s) = op /\ Cpu!Body(s) = t
  BY <1>8, <1>10, OpcodeIs
<1>12. PlainRead(s, w, b, op, a \o Zeros16)
  BY <1>3, <1>4, <1>9, <1>11, Zenon DEF PlainRead, PrefixesRead
<1>13. Cpu!Decode((Rex(w, 0, 0, b) \o <<op>>) \o a) = Cpu!OneByte(s)
  BY <1>1, <1>2, <1>7, <1>11, Zenon DEF Cpu!Decode
<1> QED
  BY <1>12, <1>13

\* The opcodes that hold the low bits of a register.
LEMMA PushOpcode ==
  ASSUME NEW s, NEW low \in 0..7, Cpu!Opcode(s) = 80 + low
  PROVE  Cpu!OneByte(s)
           = Cpu!Instr("push", <<Cpu!Gp(low + Cpu!Ext(Cpu!Bit(Cpu!RexOf(s), 0)), 8)>>)
<1>1. CASE low = 0
  <2>1. Cpu!Opcode(s) = 80 /\ 80 % 8 = 0
    BY <1>1
  <2> QED
    BY <1>1, <2>1 DEF Cpu!OneByte
<1>2. CASE low = 1
  <2>1. Cpu!Opcode(s) = 81 /\ 81 % 8 = 1
    BY <1>2
  <2> QED
    BY <1>2, <2>1 DEF Cpu!OneByte
<1>3. CASE low = 2
  <2>1. Cpu!Opcode(s) = 82 /\ 82 % 8 = 2
    BY <1>3
  <2> QED
    BY <1>3, <2>1 DEF Cpu!OneByte
<1>4. CASE low = 3
  <2>1. Cpu!Opcode(s) = 83 /\ 83 % 8 = 3
    BY <1>4
  <2> QED
    BY <1>4, <2>1 DEF Cpu!OneByte
<1>5. CASE low = 4
  <2>1. Cpu!Opcode(s) = 84 /\ 84 % 8 = 4
    BY <1>5
  <2> QED
    BY <1>5, <2>1 DEF Cpu!OneByte
<1>6. CASE low = 5
  <2>1. Cpu!Opcode(s) = 85 /\ 85 % 8 = 5
    BY <1>6
  <2> QED
    BY <1>6, <2>1 DEF Cpu!OneByte
<1>7. CASE low = 6
  <2>1. Cpu!Opcode(s) = 86 /\ 86 % 8 = 6
    BY <1>7
  <2> QED
    BY <1>7, <2>1 DEF Cpu!OneByte
<1>8. CASE low = 7
  <2>1. Cpu!Opcode(s) = 87 /\ 87 % 8 = 7
    BY <1>8
  <2> QED
    BY <1>8, <2>1 DEF Cpu!OneByte
<1> QED
  BY <1>1, <1>2, <1>3, <1>4, <1>5, <1>6, <1>7, <1>8

\* The opcodes of pop.
LEMMA PopOpcode ==
  ASSUME NEW s, NEW low \in 0..7, Cpu!Opcode(s) = 88 + low
  PROVE  Cpu!OneByte(s)
           = Cpu!Instr("pop", <<Cpu!Gp(low + Cpu!Ext(Cpu!Bit(Cpu!RexOf(s), 0)), 8)>>)
<1>1. CASE low = 0
  <2>1. Cpu!Opcode(s) = 88 /\ 88 % 8 = 0
    BY <1>1
  <2> QED
    BY <1>1, <2>1 DEF Cpu!OneByte
<1>2. CASE low = 1
  <2>1. Cpu!Opcode(s) = 89 /\ 89 % 8 = 1
    BY <1>2
  <2> QED
    BY <1>2, <2>1 DEF Cpu!OneByte
<1>3. CASE low = 2
  <2>1. Cpu!Opcode(s) = 90 /\ 90 % 8 = 2
    BY <1>3
  <2> QED
    BY <1>3, <2>1 DEF Cpu!OneByte
<1>4. CASE low = 3
  <2>1. Cpu!Opcode(s) = 91 /\ 91 % 8 = 3
    BY <1>4
  <2> QED
    BY <1>4, <2>1 DEF Cpu!OneByte
<1>5. CASE low = 4
  <2>1. Cpu!Opcode(s) = 92 /\ 92 % 8 = 4
    BY <1>5
  <2> QED
    BY <1>5, <2>1 DEF Cpu!OneByte
<1>6. CASE low = 5
  <2>1. Cpu!Opcode(s) = 93 /\ 93 % 8 = 5
    BY <1>6
  <2> QED
    BY <1>6, <2>1 DEF Cpu!OneByte
<1>7. CASE low = 6
  <2>1. Cpu!Opcode(s) = 94 /\ 94 % 8 = 6
    BY <1>7
  <2> QED
    BY <1>7, <2>1 DEF Cpu!OneByte
<1>8. CASE low = 7
  <2>1. Cpu!Opcode(s) = 95 /\ 95 % 8 = 7
    BY <1>8
  <2> QED
    BY <1>8, <2>1 DEF Cpu!OneByte
<1> QED
  BY <1>1, <1>2, <1>3, <1>4, <1>5, <1>6, <1>7, <1>8

\* The opcodes of mov with an immediate.
LEMMA MovOpcode ==
  ASSUME NEW s, NEW low \in 0..7, Cpu!Opcode(s) = 184 + low
  PROVE  Cpu!OneByte(s)
           = Cpu!Instr("mov", <<Cpu!Gp(low + Cpu!Ext(Cpu!Bit(Cpu!RexOf(s), 0)), Cpu!Width(s)),
                            <<"imm", SubSeq(Cpu!Body(s), 1, Cpu!Width(s))>>>>)
<1>1. CASE low = 0
  <2>1. Cpu!Opcode(s) = 184 /\ 184 % 8 = 0
    BY <1>1
  <2> QED
    BY <1>1, <2>1 DEF Cpu!OneByte
<1>2. CASE low = 1
  <2>1. Cpu!Opcode(s) = 185 /\ 185 % 8 = 1
    BY <1>2
  <2> QED
    BY <1>2, <2>1 DEF Cpu!OneByte
<1>3. CASE low = 2
  <2>1. Cpu!Opcode(s) = 186 /\ 186 % 8 = 2
    BY <1>3
  <2> QED
    BY <1>3, <2>1 DEF Cpu!OneByte
<1>4. CASE low = 3
  <2>1. Cpu!Opcode(s) = 187 /\ 187 % 8 = 3
    BY <1>4
  <2> QED
    BY <1>4, <2>1 DEF Cpu!OneByte
<1>5. CASE low = 4
  <2>1. Cpu!Opcode(s) = 188 /\ 188 % 8 = 4
    BY <1>5
  <2> QED
    BY <1>5, <2>1 DEF Cpu!OneByte
<1>6. CASE low = 5
  <2>1. Cpu!Opcode(s) = 189 /\ 189 % 8 = 5
    BY <1>6
  <2> QED
    BY <1>6, <2>1 DEF Cpu!OneByte
<1>7. CASE low = 6
  <2>1. Cpu!Opcode(s) = 190 /\ 190 % 8 = 6
    BY <1>7
  <2> QED
    BY <1>7, <2>1 DEF Cpu!OneByte
<1>8. CASE low = 7
  <2>1. Cpu!Opcode(s) = 191 /\ 191 % 8 = 7
    BY <1>8
  <2> QED
    BY <1>8, <2>1 DEF Cpu!OneByte
<1> QED
  BY <1>1, <1>2, <1>3, <1>4, <1>5, <1>6, <1>7, <1>8

\* mov of an immediate to a register.
LEMMA MovRIMeans ==
  ASSUME NEW num \in RegNum, NEW size \in {4, 8}, NEW v \in Values, size = 8 \/ ImmFits(v, 4)
  PROVE  Cpu!Decode(Build([form |-> "MovRI", num |-> num, size |-> size], v))
           = Cpu!Instr("mov", <<<<"reg", num, size>>, <<"imm", SubSeq(v, 1, size)>>>>)
<1> DEFINE f == [form |-> "MovRI", num |-> num, size |-> size]
           op == 184 + Low(num)
<1>1. Low(num) \in 0..7 /\ High(num) \in {0, 1} /\ num = Low(num) + 8 * High(num)
  BY RegParts
<1>2. PICK low \in 0..7, b \in {0, 1} : low = Low(num) /\ b = High(num)
  BY <1>1
<1>3. op \in Nat /\ PlainOpcode(op) 
  BY <1>2, SMT DEF PlainOpcode
<1>4. PICK a \in Seq(Nat) : a = AppendImm(v, size) /\ a = SubSeq(v, 1, size) /\ Len(a) = size
  <2>1. size \in {0, 1, 4, 8}
    OBVIOUS
  <2>2. IsFirst(AppendImm(v, size), v, size)
    BY <2>1, ImmType
  <2>3. AppendImm(v, size) = SubSeq(v, 1, size)
    BY DEF AppendImm
  <2> QED
    BY <2>2, <2>3 DEF IsFirst
<1>5. PICK w \in BOOLEAN : w <=> size = 8
  OBVIOUS
<1> HIDE DEF op
<1>6. Build(f, v) = (Rex(w, 0, 0, b) \o <<op>>) \o a
  BY <1>2, <1>4, <1>5 DEF Build, Rex, op
<1>7. PICK s : /\ PlainRead(s, w, b, op, a \o Zeros16)
               /\ Cpu!Decode((Rex(w, 0, 0, b) \o <<op>>) \o a) = Cpu!OneByte(s)
  BY <1>3, PlainDecoded
<1>8. SubSeq(a \o Zeros16, 1, size) = a
  <2>1. PICK z \in Seq(Nat) : z = Zeros16
    BY ZerosAreBytes
  <2>2. SubSeq(a \o z, 1, Len(a)) = a
    BY SMT
  <2> QED
    BY <1>4, <2>1, <2>2
<1>9. Cpu!Width(s) = size
  BY <1>5, <1>7 DEF PlainRead, Cpu!Width
<1>10. Cpu!OneByte(s) = Cpu!Instr("mov", <<Cpu!Gp(low + 8 * b, size), <<"imm", a>>>>)
  <2>1. /\ Cpu!Opcode(s) = 184 + low /\ Cpu!Ext(Cpu!Bit(Cpu!RexOf(s), 0)) = 8 * b
        /\ SubSeq(Cpu!Body(s), 1, size) = a
    BY <1>2, <1>7, <1>8 DEF PlainRead, op
  <2> QED
    BY <1>9, <2>1, MovOpcode
<1>11. Cpu!Gp(low + 8 * b, size) = <<"reg", num, size>>
  BY <1>1, <1>2 DEF Cpu!Gp
<1> QED
  BY <1>4, <1>6, <1>7, <1>10, <1>11

\* push or pop of a register.
ShortIs(num, op, v) ==
  Cpu!Decode(Build([form |-> "Short", opcode |-> op, num |-> num], v))
    = Cpu!Instr(IF op = 80 THEN "push" ELSE "pop", <<<<"reg", num, 8>>>>)

\* push and pop are decoded as such.
LEMMA ShortMeans ==
  ASSUME NEW num \in RegNum, NEW op \in {80, 88}, NEW v
  PROVE  ShortIs(num, op, v)
<1> DEFINE f == [form |-> "Short", opcode |-> op, num |-> num]
           o == op + Low(num)
<1>1. Low(num) \in 0..7 /\ High(num) \in {0, 1} /\ num = Low(num) + 8 * High(num)
  BY RegParts
<1>2. PICK low \in 0..7, b \in {0, 1} : low = Low(num) /\ b = High(num)
  BY <1>1
<1>3. o \in Nat /\ PlainOpcode(o)
  BY <1>2, SMT DEF PlainOpcode
<1>4. Rex(FALSE, 0, 0, b) = (IF num >= 8 THEN << 65 >> ELSE <<>>)
  <2>1. num >= 8 <=> b = 1
    BY <1>1, <1>2
  <2>2. CASE b = 1
    <3>1. Rex(FALSE, 0, 0, b) = << 65 >>
      BY <2>2, SMT DEF Rex
    <3> QED
      BY <2>1, <2>2, <3>1
  <2>3. CASE b = 0
    <3>1. Rex(FALSE, 0, 0, b) = <<>>
      BY <2>3, SMT DEF Rex
    <3>2. ~(num >= 8)
      BY <2>1, <2>3
    <3> QED
      BY <3>1, <3>2, Zenon
  <2> QED
    BY <2>2, <2>3
<1> HIDE DEF o
<1>5. Build(f, v) = Rex(FALSE, 0, 0, b) \o <<o>>
  BY <1>4 DEF Build, o
<1>6. Build(f, v) = (Rex(FALSE, 0, 0, b) \o <<o>>) \o <<>>
  <2>1. PICK x \in Seq(Nat) : x = Rex(FALSE, 0, 0, b)
    BY RexType
  <2>2. PICK k \in Seq(Nat) : k = <<o>>
    BY <1>3, ByteThen
  <2>3. (x \o k) \o <<>> = x \o k
    OBVIOUS
  <2> QED
    BY <1>5, <2>1, <2>2, <2>3
<1>7. PICK s : /\ PlainRead(s, FALSE, b, o, <<>> \o Zeros16)
               /\ Cpu!Decode((Rex(FALSE, 0, 0, b) \o <<o>>) \o <<>>) = Cpu!OneByte(s)
  <2>1. <<>> \in Seq(Nat)
    OBVIOUS
  <2> QED
    BY <1>3, <2>1, PlainDecoded, Zenon
<1>8. Cpu!Opcode(s) = o /\ Cpu!Ext(Cpu!Bit(Cpu!RexOf(s), 0)) = 8 * b
  BY <1>7 DEF PlainRead
<1>9. Cpu!OneByte(s) = Cpu!Instr(IF op = 80 THEN "push" ELSE "pop", <<Cpu!Gp(low + 8 * b, 8)>>)
  <2>1. CASE op = 80
    <3>1. Cpu!Opcode(s) = 80 + low
      BY <1>2, <1>8, <2>1 DEF o
    <3> QED
      BY <1>8, <2>1, <3>1, PushOpcode
  <2>2. CASE op = 88
    <3>1. Cpu!Opcode(s) = 88 + low
      BY <1>2, <1>8, <2>2 DEF o
    <3>2. Cpu!OneByte(s) = Cpu!Instr("pop", <<Cpu!Gp(low + 8 * b, 8)>>)
      BY <1>8, <3>1, PopOpcode
    <3>3. ~(op = 80)
      BY <2>2
    <3> QED
      BY <3>2, <3>3, Zenon
  <2> QED
    BY <2>1, <2>2
<1>10. Cpu!Gp(low + 8 * b, 8) = <<"reg", num, 8>>
  BY <1>1, <1>2 DEF Cpu!Gp
<1> HIDE DEF f
<1>11. Cpu!Decode(Build(f, v)) = Cpu!Instr(IF op = 80 THEN "push" ELSE "pop", <<Cpu!Gp(low + 8 * b, 8)>>)
  BY <1>6, <1>7, <1>9
<1>12. Cpu!Decode(Build(f, v)) = Cpu!Instr(IF op = 80 THEN "push" ELSE "pop", <<<<"reg", num, 8>>>>)
  BY <1>10, <1>11
<1> QED
  BY <1>12, Zenon DEF f, ShortIs

\* Two bytes, the first of them a prefix.
LEMMA TwoBytesAre ==
  ASSUME NEW a \in Nat, NEW b \in Nat
  PROVE  <<a>> \o <<b>> = <<a, b>>
<1>1. <<a>> \in Seq(Nat) /\ <<b>> \in Seq(Nat) /\ <<a, b>> \in Seq(Nat)
  OBVIOUS
<1>2. Len(<<a>> \o <<b>>) = 2 /\ Len(<<a, b>>) = 2
  BY <1>1
<1>3. (<<a>> \o <<b>>)[1] = a /\ (<<a>> \o <<b>>)[2] = b
  BY <1>1
<1>4. <<a>> \o <<b>> \in Seq(Nat)
  BY <1>1
<1>5. \A i \in 1..2 : (<<a>> \o <<b>>)[i] = <<a, b>>[i]
  BY <1>3
<1> QED
  BY <1>1, <1>2, <1>4, <1>5, SeqEqual

\* Fixed bytes, as the decoder sees them.
LEMMA RawDecoded ==
  ASSUME NEW w \in BOOLEAN, NEW op \in Nat, PlainOpcode(op)
  PROVE  \E s : /\ Cpu!Decode(IF w THEN <<72, op>> ELSE <<op>>) = Cpu!OneByte(s)
                /\ Cpu!Opcode(s) = op
                /\ Cpu!W(s) <=> w
<1>1. (Rex(w, 0, 0, 0) \o <<op>>) \o <<>> = IF w THEN <<72, op>> ELSE <<op>>
  <2>0. PICK k \in Seq(Nat) : k = <<op>>
    <3>1. <<op>> \in Seq(Nat)
      OBVIOUS
    <3> QED
      BY <3>1
  <2>1. CASE w
    <3>1. Rex(w, 0, 0, 0) = << 72 >>
      BY <2>1, SMT DEF Rex
    <3>2. (<< 72 >> \o <<op>>) \o <<>> = <<72, op>>
      <4>1. << 72 >> \o <<op>> = <<72, op>>
        BY TwoBytesAre
      <4>2. <<72, op>> \in Seq(Nat)
        OBVIOUS
      <4>3. PICK y \in Seq(Nat) : y = <<72, op>>
        BY <4>2
      <4>4. y \o <<>> = y
        OBVIOUS
      <4> QED
        BY <4>1, <4>3, <4>4
    <3> QED
      BY <2>1, <3>1, <3>2
  <2>2. CASE ~w
    <3>1. Rex(w, 0, 0, 0) = <<>>
      BY <2>2, SMT DEF Rex
    <3>2. (<<>> \o k) \o <<>> = k
      OBVIOUS
    <3> QED
      BY <2>0, <2>2, <3>1, <3>2, Zenon
  <2> QED
    BY <2>1, <2>2
<1>2. <<>> \in Seq(Nat) /\ 0 \in {0, 1}
  OBVIOUS
<1>3. PICK s : /\ PlainRead(s, w, 0, op, <<>> \o Zeros16)
               /\ Cpu!Decode((Rex(w, 0, 0, 0) \o <<op>>) \o <<>>) = Cpu!OneByte(s)
  BY <1>2, PlainDecoded, Zenon
<1>4. Cpu!Opcode(s) = op /\ (Cpu!W(s) <=> w)
  BY <1>3 DEF PlainRead
<1> QED
  BY <1>1, <1>3, <1>4, Zenon

\* The instructions of fixed bytes are decoded as such.
LEMMA RawMeans == \A m \in DOMAIN Fixed : Cpu!Decode(Fixed[m]) = Cpu!Instr(m, <<>>)
<1>1. Cpu!Decode(<< 195 >>) = Cpu!Instr("ret", <<>>)
  <2>1. PlainOpcode(195)
    BY SMT DEF PlainOpcode
  <2>2. PICK s : /\ Cpu!Decode(IF FALSE THEN <<72, 195>> ELSE << 195 >>) = Cpu!OneByte(s)
                 /\ Cpu!Opcode(s) = 195
                 /\ Cpu!W(s) <=> FALSE
    BY <2>1, RawDecoded
  <2>3. Cpu!OneByte(s) = Cpu!Instr("ret", <<>>)
    BY <2>2 DEF Cpu!OneByte
  <2> QED
    BY <2>2, <2>3
<1>2. Cpu!Decode(<< 144 >>) = Cpu!Instr("nop", <<>>)
  <2>1. PlainOpcode(144)
    BY SMT DEF PlainOpcode
  <2>2. PICK s : /\ Cpu!Decode(IF FALSE THEN <<72, 144>> ELSE << 144 >>) = Cpu!OneByte(s)
                 /\ Cpu!Opcode(s) = 144
                 /\ Cpu!W(s) <=> FALSE
    BY <2>1, RawDecoded
  <2>3. Cpu!OneByte(s) = Cpu!Instr("nop", <<>>)
    BY <2>2 DEF Cpu!OneByte
  <2> QED
    BY <2>2, <2>3
<1>3. Cpu!Decode(<< 204 >>) = Cpu!Instr("int3", <<>>)
  <2>1. PlainOpcode(204)
    BY SMT DEF PlainOpcode
  <2>2. PICK s : /\ Cpu!Decode(IF FALSE THEN <<72, 204>> ELSE << 204 >>) = Cpu!OneByte(s)
                 /\ Cpu!Opcode(s) = 204
                 /\ Cpu!W(s) <=> FALSE
    BY <2>1, RawDecoded
  <2>3. Cpu!OneByte(s) = Cpu!Instr("int3", <<>>)
    BY <2>2 DEF Cpu!OneByte
  <2> QED
    BY <2>2, <2>3
<1>4. Cpu!Decode(<< 201 >>) = Cpu!Instr("leave", <<>>)
  <2>1. PlainOpcode(201)
    BY SMT DEF PlainOpcode
  <2>2. PICK s : /\ Cpu!Decode(IF FALSE THEN <<72, 201>> ELSE << 201 >>) = Cpu!OneByte(s)
                 /\ Cpu!Opcode(s) = 201
                 /\ Cpu!W(s) <=> FALSE
    BY <2>1, RawDecoded
  <2>3. Cpu!OneByte(s) = Cpu!Instr("leave", <<>>)
    BY <2>2 DEF Cpu!OneByte
  <2> QED
    BY <2>2, <2>3
<1>5. Cpu!Decode(<< 153 >>) = Cpu!Instr("cdq", <<>>)
  <2>1. PlainOpcode(153)
    BY SMT DEF PlainOpcode
  <2>2. PICK s : /\ Cpu!Decode(IF FALSE THEN <<72, 153>> ELSE << 153 >>) = Cpu!OneByte(s)
                 /\ Cpu!Opcode(s) = 153
                 /\ Cpu!W(s) <=> FALSE
    BY <2>1, RawDecoded
  <2>3. Cpu!OneByte(s) = Cpu!Instr("cdq", <<>>)
    BY <2>2 DEF Cpu!OneByte
  <2> QED
    BY <2>2, <2>3
<1>6. Cpu!Decode(<<72, 153>>) = Cpu!Instr("cqo", <<>>)
  <2>1. PlainOpcode(153)
    BY SMT DEF PlainOpcode
  <2>2. PICK s : /\ Cpu!Decode(IF TRUE THEN <<72, 153>> ELSE << 153 >>) = Cpu!OneByte(s)
                 /\ Cpu!Opcode(s) = 153
                 /\ Cpu!W(s) <=> TRUE
    BY <2>1, RawDecoded
  <2>3. Cpu!OneByte(s) = Cpu!Instr("cqo", <<>>)
    BY <2>2 DEF Cpu!OneByte
  <2> QED
    BY <2>2, <2>3
<1> QED
  BY <1>1, <1>2, <1>3, <1>4, <1>5, <1>6 DEF Fixed

-----------------------------------------------------------------------------
(* Operands and mnemonics.                                                 *)

\* The kinds of operands.
LEMMA OperandKinds ==
  ASSUME NEW o \in Operand
  PROVE  /\ o.t \in {"reg", "xmm", "mem", "imm"}
         /\ o.t = "reg" => o.n \in RegNum /\ o.s \in {4, 8}
         /\ o.t = "xmm" => o.n \in RegNum
         /\ o.t = "mem" => o.terms \in Seq(Term) /\ o.s \in {0, 1, 2, 4, 8}
         /\ o.t = "imm" => /\ o.k \in {"num", "r8", "r16"}
                           /\ o.k = "num" => o.v \in Values
                           /\ o.k # "num" => o.n \in RegNum
<1>1. CASE o \in [t : {"reg"}, n : RegNum, s : {4, 8}]
  BY <1>1
<1>2. CASE o \in [t : {"xmm"}, n : RegNum]
  BY <1>2
<1>3. CASE o \in [t : {"mem"}, terms : Seq(Term), s : {0, 1, 2, 4, 8}]
  BY <1>3
<1>4. CASE o \in [t : {"imm"}, k : {"num"}, v : [1..8 -> 0..255]]
  BY <1>4 DEF Values
<1>5. CASE o \in [t : {"imm"}, k : {"r8", "r16"}, n : RegNum]
  BY <1>5
<1> QED
  BY <1>1, <1>2, <1>3, <1>4, <1>5 DEF Operand

\* The mnemonics of one family.
AluNames   == {"add", "or", "adc", "sbb", "and", "sub", "xor", "cmp"}
ShiftNames == {"rol", "ror", "rcl", "rcr", "shl", "sal", "shr", "sar"}
MoveNames  == {"movss", "movsd", "movups", "movupd", "movaps", "movapd"}
SseNames   ==
  MoveNames \cup
  {"addss", "subss", "mulss", "divss", "addsd", "subsd", "mulsd", "divsd", "addps", "subps",
   "mulps", "divps", "addpd", "subpd", "mulpd", "divpd", "xorps", "xorpd"} \cup ToSse \cup FromSse
UnaryNames == {"inc", "dec", "not", "neg"}
FixedNames == {"ret", "nop", "int3", "leave", "cdq", "cqo"}

\* The mnemonics of the tables.
LEMMA Families ==
  /\ DOMAIN Alu = AluNames
  /\ DOMAIN Shift = ShiftNames
  /\ DOMAIN SseTable = SseNames
  /\ DOMAIN Unary = UnaryNames
  /\ DOMAIN Fixed = FixedNames
<1>1. DOMAIN Alu = AluNames
  BY DEF Alu, AluNames
<1>2. DOMAIN Shift = ShiftNames
  BY DEF Shift, ShiftNames
<1>3. DOMAIN SseTable = SseNames
  BY DEF SseTable, SseNames, MoveNames, ToSse, FromSse
<1>4. DOMAIN Unary = UnaryNames
  BY DEF Unary, UnaryNames
<1>5. DOMAIN Fixed = FixedNames
  BY DEF Fixed, FixedNames
<1> QED
  BY <1>1, <1>2, <1>3, <1>4, <1>5

\* An operand that is accepted has a form.
LEMMA RmOf ==
  ASSUME NEW o \in Operand, o.t \in {"reg", "xmm", "mem"}, BaseOk(o), RmOk(Rm(o))
  PROVE  /\ Rm(o) \in RmForm
         /\ o.t # "mem" => IsRegister(Rm(o)) /\ Rm(o).reg = o.n
         /\ o.t = "mem" => /\ ~IsRegister(Rm(o))
                           /\ Rm(o) = ParseMem(o.terms)
                           /\ MemAddress(Rm(o)) = AddressOf(o.terms) <=> AddressKept(o.terms)
<1>1. CASE o.t # "mem"
  <2>1. o.n \in RegNum
    BY <1>1, OperandKinds
  <2>2. Rm(o) = [reg |-> o.n]
    BY <1>1 DEF Rm
  <2>3. [reg |-> o.n] \in RmForm
    BY <2>1 DEF RmForm
  <2> QED
    BY <1>1, <2>2, <2>3 DEF IsRegister
<1>2. CASE o.t = "mem"
  <2>1. o.terms \in Seq(Term)
    BY <1>2, OperandKinds
  <2>2. Rm(o) = ParseMem(o.terms)
    BY <1>2 DEF Rm
  <2>3. ParseMem(o.terms) \in MemState
    BY <2>1, DispIsWritten
  <2>4. ~IsRegister(Rm(o))
    BY <2>2, <2>3 DEF IsRegister, MemState
  <2>5. MemOk(ParseMem(o.terms))
    BY <2>2, <2>4 DEF RmOk, IsRegister
  <2>6. ParseMem(o.terms).base # NoReg
    BY <1>2 DEF BaseOk
  <2>7. /\ ParseMem(o.terms) \in MemForm
        /\ MemAddress(ParseMem(o.terms)) = AddressOf(o.terms) <=> AddressKept(o.terms)
    BY <2>1, <2>5, <2>6, AddressIsRight
  <2> QED
    BY <1>2, <2>2, <2>4, <2>7 DEF RmForm
<1> QED
  BY <1>1, <1>2

\* A register, as it is written.
LEMMA RegWritten ==
  ASSUME NEW i, NEW o \in Operand, o.t = "reg"
  PROVE  /\ WrittenOp(i, o) = <<"reg", o.n, o.s>>
         /\ RegOperand(o.n, Wide(o)) = WrittenOp(i, o)
         /\ SizeOf(Wide(o)) = o.s
         /\ Wide(o) \in BOOLEAN
<1>1. o.s \in {4, 8}
  BY OperandKinds
<1>2. WrittenOp(i, o) = <<"reg", o.n, o.s>>
  BY DEF WrittenOp
<1>3. SizeOf(Wide(o)) = o.s
  BY <1>1 DEF SizeOf, Wide
<1> QED
  BY <1>2, <1>3 DEF RegOperand, Wide

\* A register or memory of this size is the operand written.
Kept(i, o, size) ==
  \/ o.t = "reg" /\ o.s = size
  \/ o.t = "mem" /\ AddressKept(o.terms) /\ MemSize(i, o) = size

\* A register or memory is read as it is written.
LEMMA RmWritten ==
  ASSUME NEW i, NEW size, NEW o \in Operand, o.t \in {"reg", "mem"}, BaseOk(o), RmOk(Rm(o))
  PROVE  RmOperand(Rm(o), size) = WrittenOp(i, o) <=> Kept(i, o, size)
<1>1. CASE o.t = "reg"
  <2>1. RmOperand(Rm(o), size) = <<"reg", o.n, size>>
    BY <1>1, RmOf DEF RmOperand
  <2>2. WrittenOp(i, o) = <<"reg", o.n, o.s>>
    BY <1>1, RegWritten
  <2>3. <<"reg", o.n, size>> = <<"reg", o.n, o.s>> <=> o.s = size
    OBVIOUS
  <2> QED
    BY <1>1, <2>1, <2>2, <2>3 DEF Kept
<1>2. CASE o.t = "mem"
  <2>1. RmOperand(Rm(o), size) = <<"mem", MemAddress(Rm(o)), size>>
    BY <1>2, RmOf DEF RmOperand
  <2>2. WrittenOp(i, o) = <<"mem", AddressOf(o.terms), MemSize(i, o)>>
    BY <1>2 DEF WrittenOp
  <2>3. <<"mem", MemAddress(Rm(o)), size>> = <<"mem", AddressOf(o.terms), MemSize(i, o)>>
          <=> MemAddress(Rm(o)) = AddressOf(o.terms) /\ MemSize(i, o) = size
    OBVIOUS
  <2>4. MemAddress(Rm(o)) = AddressOf(o.terms) <=> AddressKept(o.terms)
    BY <1>2, RmOf
  <2> QED
    BY <1>2, <2>1, <2>2, <2>3, <2>4 DEF Kept
<1> QED
  BY <1>1, <1>2

\* An SSE register is read as it is written.
LEMMA XmmWritten ==
  ASSUME NEW i, NEW o \in Operand, o.t \in {"xmm", "mem"}, BaseOk(o), RmOk(Rm(o))
  PROVE  XmmOperand(Rm(o)) = WrittenOp(i, o)
           <=> (o.t = "mem" => AddressKept(o.terms) /\ MemSize(i, o) = 0)
<1>1. CASE o.t = "xmm"
  <2>1. XmmOperand(Rm(o)) = <<"xmm", o.n>>
    BY <1>1, RmOf DEF XmmOperand
  <2>2. WrittenOp(i, o) = <<"xmm", o.n>>
    BY <1>1 DEF WrittenOp
  <2> QED
    BY <1>1, <2>1, <2>2
<1>2. CASE o.t = "mem"
  <2>1. XmmOperand(Rm(o)) = <<"mem", MemAddress(Rm(o)), 0>>
    BY <1>2, RmOf DEF XmmOperand
  <2>2. WrittenOp(i, o) = <<"mem", AddressOf(o.terms), MemSize(i, o)>>
    BY <1>2 DEF WrittenOp
  <2>3. <<"mem", MemAddress(Rm(o)), 0>> = <<"mem", AddressOf(o.terms), MemSize(i, o)>>
          <=> MemAddress(Rm(o)) = AddressOf(o.terms) /\ MemSize(i, o) = 0
    OBVIOUS
  <2>4. MemAddress(Rm(o)) = AddressOf(o.terms) <=> AddressKept(o.terms)
    BY <1>2, RmOf
  <2> QED
    BY <1>2, <2>1, <2>2, <2>3, <2>4
<1> QED
  BY <1>1, <1>2

-----------------------------------------------------------------------------
(* Instructions of two operands.                                           *)

\* An instruction of the two operands a and b.
IsTwo(i, a, b) ==
  /\ i \in Instruction /\ a \in Operand /\ b \in Operand
  /\ DOMAIN i.ops = 1..2 /\ Len(i.ops) = 2 /\ i.ops[1] = a /\ i.ops[2] = b
  /\ i.ops = <<a, b>>

\* An instruction of two operands.
LEMMA TwoOperands ==
  ASSUME NEW i \in Instruction, Len(i.ops) = 2
  PROVE  IsTwo(i, i.ops[1], i.ops[2])
<1>1. i.ops \in Seq(Operand)
  BY DEF Instruction
<1> HIDE DEF Operand
<1>2. DOMAIN i.ops = 1..2 /\ i.ops[1] \in Operand /\ i.ops[2] \in Operand
  BY <1>1
<1>3. i.ops = <<i.ops[1], i.ops[2]>>
  BY <1>1, <1>2
<1> QED
  BY <1>2, <1>3 DEF IsTwo

\* Instructions are equal when their operands are.
LEMMA SameInstr ==
  ASSUME NEW m, NEW n, NEW x, NEW y, NEW u, NEW v
  PROVE  Cpu!Instr(m, <<x, y>>) = Cpu!Instr(n, <<u, v>>) <=> m = n /\ x = u /\ y = v
  BY DEF Cpu!Instr

\* The mnemonic, as it is written.
WrittenName(m) == IF m = "sal" THEN "shl" ELSE m

\* An instruction of two operands, as it is written.
LEMMA WrittenTwo ==
  ASSUME NEW i, NEW a, NEW b, IsTwo(i, a, b)
  PROVE  /\ i.m \in {"test", "xchg"} /\ b.t = "mem"
              => Written(i) = Cpu!Instr(WrittenName(i.m), <<WrittenOp(i, b), WrittenOp(i, a)>>)
         /\ ~(i.m \in {"test", "xchg"} /\ b.t = "mem")
              => Written(i) = Cpu!Instr(WrittenName(i.m), <<WrittenOp(i, a), WrittenOp(i, b)>>)
<1> DEFINE ops == [j \in DOMAIN i.ops |-> WrittenOp(i, i.ops[j])]
<1>1. ops = <<WrittenOp(i, a), WrittenOp(i, b)>>
  BY DEF IsTwo
<1>2. Reverse(<<WrittenOp(i, a), WrittenOp(i, b)>>) = <<WrittenOp(i, b), WrittenOp(i, a)>>
  BY DEF Reverse
<1>3. i.ops[2].t = b.t
  BY DEF IsTwo
<1>4. Written(i) = [m |-> WrittenName(i.m),
                    ops |-> IF i.m \in {"test", "xchg"} /\ i.ops[2].t = "mem" THEN Reverse(ops) ELSE ops]
  BY DEF Written, WrittenName
<1> HIDE DEF ops
<1> QED
  BY <1>1, <1>2, <1>3, <1>4 DEF Cpu!Instr

\* The address of memory is kept.
MemKept(o) == o.t = "mem" => AddressKept(o.terms)

\* The three exceptions that are about addresses.
LEMMA AddressesKept ==
  ASSUME NEW i, NEW a, NEW b, IsTwo(i, a, b)
  PROVE  (LostRegister(i) \/ ScaleCut(i) \/ NarrowAddress(i)) <=> ~(MemKept(a) /\ MemKept(b))
<1> DEFINE Bad(o) == \/ Cardinality(Registers(o.terms)) > 2
                     \/ \E j \in Registers(o.terms) : CutTerm(o.terms[j])
                     \/ AddressOf(o.terms).narrow
<1>1. (LostRegister(i) \/ ScaleCut(i) \/ NarrowAddress(i)) <=> \E o \in Mems(i) : Bad(o)
  BY Zenon DEF LostRegister, ScaleCut, NarrowAddress, CutTerm
<1>2. ASSUME NEW o \in Operand, o.t = "mem"
      PROVE  Bad(o) <=> ~MemKept(o)
  <2>1. o.terms \in Seq(Term)
    BY <1>2, OperandKinds
  <2>2. Cardinality(Registers(o.terms)) \in Nat
    BY <2>1, RegistersType
  <2>3. Cardinality(Registers(o.terms)) > 2 <=> ~(Cardinality(Registers(o.terms)) <= 2)
    BY <2>2
  <2> QED
    BY <1>2, <2>3, Zenon DEF MemKept, AddressKept
<1> HIDE DEF Bad
<1>3. \A o : o \in Mems(i) <=> (o = a \/ o = b) /\ o.t = "mem"
  BY DEF Mems, IsTwo
<1>4. a \in Operand /\ b \in Operand
  BY DEF IsTwo
<1>5. a.t = "mem" => (Bad(a) <=> ~MemKept(a))
  BY <1>2, <1>4
<1>6. b.t = "mem" => (Bad(b) <=> ~MemKept(b))
  BY <1>2, <1>4
<1>7. (a.t # "mem" => MemKept(a)) /\ (b.t # "mem" => MemKept(b))
  BY DEF MemKept
<1> QED
  BY <1>1, <1>3, <1>5, <1>6, <1>7, Zenon

\* The cases that are not about an address.
Exceptions(i) ==
  \/ HighByte(i) \/ SignedImm(i) \/ SizeIgnored(i)
  \/ OtherMove(i) \/ WrongConversion(i) \/ OperandIgnored(i)

\* The exceptions of an instruction of two operands.
LEMMA MisreadTwo ==
  ASSUME NEW i, NEW a, NEW b, IsTwo(i, a, b)
  PROVE  Misread(i) <=> ~(MemKept(a) /\ MemKept(b)) \/ Exceptions(i)
  BY AddressesKept, Zenon DEF Misread, Exceptions

-----------------------------------------------------------------------------
(* Sizes and exceptions, family by family.                                 *)

\* The general instructions.
GeneralNames == AluNames \cup {"mov", "test", "xchg", "lea", "imul"}

\* The registers beside a memory operand.
LEMMA Beside ==
  ASSUME NEW i, NEW a, NEW b, IsTwo(i, a, b)
  PROVE  LET beside == {i.ops[j].s : j \in {j \in DOMAIN i.ops : i.ops[j].t = "reg"}}
         IN  /\ a.t = "reg" /\ b.t # "reg" => beside = {a.s}
             /\ a.t # "reg" /\ b.t = "reg" => beside = {b.s}
             /\ a.t # "reg" /\ b.t # "reg" => beside = {}
<1>1. DOMAIN i.ops = {1, 2}
  BY DEF IsTwo
<1>2. i.ops[1] = a /\ i.ops[2] = b
  BY DEF IsTwo
<1> QED
  BY <1>1, <1>2

\* The size of memory beside a register, or alone.
DefaultSize(o, beside) == IF o.s # 0 THEN o.s ELSE beside

\* The size of memory, of a general instruction.
LEMMA SizeGeneral ==
  ASSUME NEW i, NEW a, NEW b, IsTwo(i, a, b),
         i.m \notin SseNames \cup {"movd", "movq", "lea"}, NEW o
  PROVE  /\ a.t = "reg" /\ b.t # "reg" => MemSize(i, o) = DefaultSize(o, a.s)
         /\ a.t # "reg" /\ b.t = "reg" => MemSize(i, o) = DefaultSize(o, b.s)
         /\ a.t # "reg" /\ b.t # "reg" => MemSize(i, o) = DefaultSize(o, 4)
<1> DEFINE beside == {i.ops[j].s : j \in {j \in DOMAIN i.ops : i.ops[j].t = "reg"}}
<1>1. i.m \notin DOMAIN SseTable \ ToSse /\ i.m \notin {"movq", "movd", "lea"} /\ i.m \notin ToSse
  BY Families DEF SseNames
<1>2. MemSize(i, o) = IF o.s # 0 THEN o.s
                      ELSE IF beside # {} THEN CHOOSE s \in beside : TRUE
                      ELSE 4
  BY <1>1 DEF MemSize
<1>3. \A x : (CHOOSE s \in {x} : TRUE) = x
  OBVIOUS
<1>4. /\ a.t = "reg" /\ b.t # "reg" => beside = {a.s}
      /\ a.t # "reg" /\ b.t = "reg" => beside = {b.s}
      /\ a.t # "reg" /\ b.t # "reg" => beside = {}
  BY Beside
<1> HIDE DEF beside
<1> QED
  BY <1>2, <1>3, <1>4 DEF DefaultSize

\* The exceptions of a general instruction.
LEMMA GeneralExceptions ==
  ASSUME NEW i, NEW a, NEW b, IsTwo(i, a, b), i.m \in GeneralNames
  PROVE  Exceptions(i) <=> SignedImm(i) \/ SizeIgnored(i)
<1>1. i.m \notin Movx /\ i.m \notin {"movd", "movq"} /\ i.m \notin ToSse \cup FromSse /\ i.m \notin DOMAIN Fixed
  BY Families DEF GeneralNames, AluNames, Movx, ToSse, FromSse, FixedNames
<1>2. ~HighByte(i) /\ ~OtherMove(i) /\ ~WrongConversion(i) /\ ~OperandIgnored(i)
  BY <1>1 DEF HighByte, OtherMove, WrongConversion, OperandIgnored
<1> QED
  BY <1>2 DEF Exceptions

\* When an immediate is sign-extended.
LEMMA GeneralSigned ==
  ASSUME NEW i, NEW a, NEW b, IsTwo(i, a, b), i.m \in GeneralNames
  PROVE  SignedImm(i) <=> /\ b.t = "imm" /\ b.k = "num"
                          /\ ~(i.m = "mov" /\ a.t = "reg")
                          /\ SizeHere(i) = 8
                          /\ Zeros(b.v, 5) /\ b.v[4] >= 128
<1>1. i.m \notin DOMAIN Shift
  BY Families DEF GeneralNames, AluNames, ShiftNames
<1>2. i.ops[1] = a /\ i.ops[2] = b /\ Len(i.ops) = 2
  BY DEF IsTwo
<1> QED
  BY <1>1, <1>2 DEF SignedImm

\* When a size is not compared.
LEMMA GeneralIgnored ==
  ASSUME NEW i, NEW a, NEW b, IsTwo(i, a, b), i.m \in GeneralNames
  PROVE  /\ a.t = "reg" /\ b.t = "reg" => (SizeIgnored(i) <=> i.m = "imul" /\ a.s # b.s)
         /\ a.t = "reg" /\ b.t = "mem" => (SizeIgnored(i) <=> i.m # "lea" /\ b.s \notin {0, a.s})
         /\ a.t = "mem" /\ b.t = "reg" /\ i.m # "imul" => (SizeIgnored(i) <=> i.m # "lea" /\ a.s \notin {0, b.s})
         /\ b.t = "imm" => ~SizeIgnored(i)
<1>1. i.m \notin Movx \cup DOMAIN SseTable /\ i.m \notin ToSse
  BY Families DEF GeneralNames, AluNames, Movx, ToSse, FromSse, SseNames, MoveNames
<1>2. i.ops[1] = a /\ i.ops[2] = b /\ Len(i.ops) = 2
  BY DEF IsTwo
<1> DEFINE E == \E r, o \in {a, b} : r.t = "reg" /\ o.t = "mem" /\ o.s \notin {0, r.s}
<1>3. SizeIgnored(i) <=> (i.m = "imul" /\ b.t = "reg" /\ a.s # b.s) \/ (i.m # "lea" /\ E)
  BY <1>1, <1>2 DEF SizeIgnored
<1>4. E <=> \/ a.t = "reg" /\ b.t = "mem" /\ b.s \notin {0, a.s}
            \/ b.t = "reg" /\ a.t = "mem" /\ a.s \notin {0, b.s}
  BY Zenon
<1> HIDE DEF E
<1>5. CASE a.t = "reg" /\ b.t = "reg"
  BY <1>3, <1>4, <1>5
<1>6. CASE a.t = "reg" /\ b.t = "mem"
  BY <1>3, <1>4, <1>6
<1>7. CASE a.t = "mem" /\ b.t = "reg"
  BY <1>3, <1>4, <1>7
<1>8. CASE b.t = "imm"
  BY <1>3, <1>4, <1>8
<1> QED
  BY <1>5, <1>6, <1>7, <1>8

-----------------------------------------------------------------------------
(* What is accepted.                                                       *)

\* The instruction is decoded as what is written, unless it is an exception.
Right(i) == (Cpu!Decode(Encode(i)) = Written(i)) <=> ~Misread(i)

\* What is not parsed is not built.
LEMMA ErrorFails == \A v : Build(Error, v) = Failed
  BY DEF Build, Error

\* What is accepted is parsed.
LEMMA AcceptedParses ==
  ASSUME NEW i, Accepted(i)
  PROVE  Parse(i) # Error
<1>1. SUFFICES ASSUME Parse(i) = Error PROVE FALSE
  OBVIOUS
<1>2. ~HasImm(Error)
  BY DEF HasImm, Error
<1>3. Encode(i) = Build(Error, Zero64)
  BY <1>1, <1>2, Zenon DEF Encode
<1> QED
  BY <1>3, ErrorFails DEF Accepted

\* An accepted instruction of two operands has addresses with a base.
LEMMA ParsedTwo ==
  ASSUME NEW i, NEW a, NEW b, IsTwo(i, a, b), i.m \notin FixedNames, Accepted(i)
  PROVE  BaseOk(a) /\ BaseOk(b) /\ Parse(i) = ParseTwo(i.m, a, b) /\ ParseTwo(i.m, a, b) # Error
<1>1. Parse(i) # Error
  BY AcceptedParses
<1>2. i.m \notin DOMAIN Fixed
  BY Families
<1>3. DOMAIN i.ops = {1, 2} /\ i.ops[1] = a /\ i.ops[2] = b /\ Len(i.ops) = 2
  BY DEF IsTwo
<1>4. BaseOk(a) /\ BaseOk(b)
  <2>1. ~(\E j \in DOMAIN i.ops : ~BaseOk(i.ops[j]))
    BY <1>1, <1>2, Zenon DEF Parse
  <2> QED
    BY <1>3, <2>1
<1>5. Parse(i) = ParseTwo(i.m, a, b)
  <2>1. ~(\E j \in DOMAIN i.ops : ~BaseOk(i.ops[j]))
    BY <1>3, <1>4
  <2>2. Parse(i) = CASE Len(i.ops) = 1 -> ParseOne(i.m, i.ops[1])
                     [] Len(i.ops) = 2 -> ParseTwo(i.m, i.ops[1], i.ops[2])
                     [] OTHER -> Error
    BY <1>2, <2>1, Zenon DEF Parse
  <2> QED
    BY <1>3, <2>2
<1> QED
  BY <1>1, <1>4, <1>5

\* An accepted instruction of a register and a register or memory.
LEMMA RmRAccepted ==
  ASSUME NEW i, NEW p, NEW two, NEW op, NEW w, NEW reg, NEW rm,
         Parse(i) = RmRForm(p, two, op, w, reg, rm), Accepted(i)
  PROVE  RmOk(rm) /\ Encode(i) = Build(RmRForm(p, two, op, w, reg, rm), Zero64)
<1> DEFINE f == RmRForm(p, two, op, w, reg, rm)
<1>1. f.form = "RmR" /\ f.rm = rm
  BY DEF RmRForm
<1> HIDE DEF f
<1>2. ~HasImm(f)
  BY <1>1 DEF HasImm
<1>3. Encode(i) = Build(f, Zero64)
  BY <1>2, Zenon DEF Encode, f
<1>4. ~RmOk(rm) => Build(f, Zero64) = Failed
  BY <1>1 DEF Build
<1> QED
  BY <1>3, <1>4, Zenon DEF Accepted, f

\* An accepted instruction of a register or memory and an immediate.
LEMMA RmIAccepted ==
  ASSUME NEW i, NEW op, NEW digit, NEW w, NEW rm, NEW width \in Nat,
         Parse(i) = RmIForm(op, digit, w, rm, width), Accepted(i)
  PROVE  /\ RmOk(rm)
         /\ width = 0 => Encode(i) = Build(RmIForm(op, digit, w, rm, width), Zero64)
         /\ width > 0 => /\ i.ops[2].k = "num"
                         /\ ImmFits(i.ops[2].v, width)
                         /\ Encode(i) = Build(RmIForm(op, digit, w, rm, width), i.ops[2].v)
<1> DEFINE f == RmIForm(op, digit, w, rm, width)
<1>1. f.form = "RmI" /\ f.rm = rm /\ f.width = width
  BY DEF RmIForm
<1> HIDE DEF f
<1>2. HasImm(f) <=> width > 0
  BY <1>1 DEF HasImm
<1>3. \A v : ~RmOk(rm) \/ ~ImmFits(v, width) => Build(f, v) = Failed
  BY <1>1 DEF Build
<1>4. CASE width = 0
  <2>1. Encode(i) = Build(f, Zero64)
    BY <1>2, <1>4 DEF Encode, f
  <2> QED
    BY <1>3, <1>4, <2>1 DEF Accepted, f
<1>5. CASE width > 0
  <2>1. Encode(i) = IF i.ops[2].k = "num" THEN Build(f, i.ops[2].v) ELSE Failed
    BY <1>2, <1>5 DEF Encode, f
  <2> QED
    BY <1>3, <1>5, <2>1 DEF Accepted, f
<1> QED
  BY <1>4, <1>5

\* An accepted mov of an immediate to a register.
LEMMA MovRIAccepted ==
  ASSUME NEW i, NEW num, NEW size, Accepted(i),
         Parse(i) = [form |-> "MovRI", num |-> num, size |-> size]
  PROVE  /\ i.ops[2].k = "num"
         /\ size = 8 \/ ImmFits(i.ops[2].v, 4)
         /\ Encode(i) = Build([form |-> "MovRI", num |-> num, size |-> size], i.ops[2].v)
<1> DEFINE f == [form |-> "MovRI", num |-> num, size |-> size]
<1>1. f.form = "MovRI" /\ f.size = size
  OBVIOUS
<1> HIDE DEF f
<1>2. HasImm(f)
  BY <1>1 DEF HasImm
<1>3. \A v : ~(size = 8 \/ ImmFits(v, 4)) => Build(f, v) = Failed
  BY <1>1 DEF Build
<1>4. Encode(i) = IF i.ops[2].k = "num" THEN Build(f, i.ops[2].v) ELSE Failed
  BY <1>2 DEF Encode, f
<1> QED
  BY <1>3, <1>4 DEF Accepted, f

-----------------------------------------------------------------------------
(* The general instructions, by the shape of their operands.               *)

\* A register and a register.
LEMMA RegRegRight ==
  ASSUME NEW i, NEW a, NEW b, IsTwo(i, a, b), i.m \in GeneralNames, a.t = "reg", b.t = "reg",
         a.s = b.s,
         Cpu!Decode(Encode(i)) = Cpu!Instr(i.m, <<RmOperand(Rm(a), SizeOf(Wide(a))), RegOperand(b.n, Wide(a))>>)
  PROVE  Right(i)
<1>1. a \in Operand /\ b \in Operand
  BY DEF IsTwo
<1>2. RegOperand(b.n, Wide(a)) = WrittenOp(i, b)
  BY <1>1, RegWritten DEF Wide
<1>3. RmOperand(Rm(a), SizeOf(Wide(a))) = WrittenOp(i, a)
  <2>1. BaseOk(a) /\ RmOk(Rm(a))
    BY DEF BaseOk, RmOk, Rm
  <2>2. SizeOf(Wide(a)) = a.s
    BY <1>1, RegWritten
  <2> QED
    BY <1>1, <2>1, <2>2, RmWritten DEF Kept
<1>4. i.m \notin {"sal"} /\ b.t # "mem"
  BY DEF GeneralNames, AluNames
<1>5. Written(i) = Cpu!Instr(i.m, <<WrittenOp(i, a), WrittenOp(i, b)>>)
  BY <1>4, WrittenTwo DEF WrittenName
<1>6. ~Misread(i)
  <2>1. ~SizeIgnored(i) /\ ~SignedImm(i)
    BY GeneralIgnored, GeneralSigned
  <2> QED
    BY <2>1, MisreadTwo, GeneralExceptions DEF MemKept
<1> QED
  BY <1>2, <1>3, <1>5, <1>6 DEF Right

\* A register and memory.
LEMMA RegMemRight ==
  ASSUME NEW i, NEW a, NEW b, IsTwo(i, a, b), i.m \in GeneralNames, a.t = "reg", b.t = "mem",
         BaseOk(b), RmOk(Rm(b)),
         IF i.m \in {"test", "xchg"}
         THEN Cpu!Decode(Encode(i)) = Cpu!Instr(i.m, <<RmOperand(Rm(b), SizeOf(Wide(a))), RegOperand(a.n, Wide(a))>>)
         ELSE Cpu!Decode(Encode(i)) = Cpu!Instr(i.m, <<RegOperand(a.n, Wide(a)), RmOperand(Rm(b), SizeOf(Wide(a)))>>)
  PROVE  Right(i)
<1>1. a \in Operand /\ b \in Operand
  BY DEF IsTwo
<1>2. RegOperand(a.n, Wide(a)) = WrittenOp(i, a) /\ SizeOf(Wide(a)) = a.s
  BY <1>1, RegWritten
<1>3. RmOperand(Rm(b), a.s) = WrittenOp(i, b) <=> AddressKept(b.terms) /\ MemSize(i, b) = a.s
  BY <1>1, RmWritten DEF Kept
<1>4. WrittenName(i.m) = i.m
  BY DEF GeneralNames, AluNames, WrittenName
<1>5. Cpu!Decode(Encode(i)) = Written(i) <=> RmOperand(Rm(b), a.s) = WrittenOp(i, b)
  <2>1. CASE i.m \in {"test", "xchg"}
    <3>1. Written(i) = Cpu!Instr(i.m, <<WrittenOp(i, b), WrittenOp(i, a)>>)
      BY <1>4, <2>1, WrittenTwo
    <3>2. Cpu!Decode(Encode(i)) = Cpu!Instr(i.m, <<RmOperand(Rm(b), a.s), WrittenOp(i, a)>>)
      BY <1>2, <2>1
    <3> QED
      BY <3>1, <3>2, SameInstr
  <2>2. CASE i.m \notin {"test", "xchg"}
    <3>1. Written(i) = Cpu!Instr(i.m, <<WrittenOp(i, a), WrittenOp(i, b)>>)
      BY <1>4, <2>2, WrittenTwo
    <3>2. Cpu!Decode(Encode(i)) = Cpu!Instr(i.m, <<WrittenOp(i, a), RmOperand(Rm(b), a.s)>>)
      BY <1>2, <2>2
    <3> QED
      BY <3>1, <3>2, SameInstr
  <2> QED
    BY <2>1, <2>2
<1>6. MemSize(i, b) = a.s <=> i.m = "lea" \/ b.s \in {0, a.s}
  <2>1. CASE i.m = "lea"
    <3>1. i.m \notin DOMAIN SseTable \ ToSse
      BY <2>1, Families DEF SseNames, MoveNames, ToSse, FromSse
    <3>2. MemSize(i, b) = CHOOSE s \in {i.ops[j].s : j \in {j \in DOMAIN i.ops : i.ops[j].t = "reg"}} : TRUE
      BY <2>1, <3>1 DEF MemSize
    <3>3. {i.ops[j].s : j \in {j \in DOMAIN i.ops : i.ops[j].t = "reg"}} = {a.s}
      BY Beside
    <3> QED
      BY <2>1, <3>2, <3>3
  <2>2. CASE i.m # "lea"
    <3>1. i.m \notin SseNames \cup {"movd", "movq", "lea"}
      BY <2>2 DEF SseNames, MoveNames, ToSse, FromSse, GeneralNames, AluNames
    <3>2. MemSize(i, b) = DefaultSize(b, a.s)
      BY <3>1, SizeGeneral
    <3> QED
      BY <2>2, <3>2 DEF DefaultSize
  <2> QED
    BY <2>1, <2>2
<1>7. Misread(i) <=> ~AddressKept(b.terms) \/ (i.m # "lea" /\ b.s \notin {0, a.s})
  <2>1. SizeIgnored(i) <=> i.m # "lea" /\ b.s \notin {0, a.s}
    BY GeneralIgnored
  <2>2. ~SignedImm(i)
    BY GeneralSigned
  <2>3. MemKept(a) /\ (MemKept(b) <=> AddressKept(b.terms))
    BY DEF MemKept
  <2> QED
    BY <2>1, <2>2, <2>3, MisreadTwo, GeneralExceptions
<1> QED
  BY <1>3, <1>5, <1>6, <1>7 DEF Right

\* Memory and a register.
LEMMA MemRegRight ==
  ASSUME NEW i, NEW a, NEW b, IsTwo(i, a, b), i.m \in GeneralNames \ {"lea", "imul"},
         a.t = "mem", b.t = "reg", BaseOk(a), RmOk(Rm(a)),
         Cpu!Decode(Encode(i)) = Cpu!Instr(i.m, <<RmOperand(Rm(a), SizeOf(Wide(b))), RegOperand(b.n, Wide(b))>>)
  PROVE  Right(i)
<1>1. a \in Operand /\ b \in Operand
  BY DEF IsTwo
<1>2. RegOperand(b.n, Wide(b)) = WrittenOp(i, b) /\ SizeOf(Wide(b)) = b.s
  BY <1>1, RegWritten
<1>3. RmOperand(Rm(a), b.s) = WrittenOp(i, a) <=> AddressKept(a.terms) /\ MemSize(i, a) = b.s
  BY <1>1, RmWritten DEF Kept
<1>4. WrittenName(i.m) = i.m /\ b.t # "mem"
  BY DEF GeneralNames, AluNames, WrittenName
<1>5. Cpu!Decode(Encode(i)) = Written(i) <=> RmOperand(Rm(a), b.s) = WrittenOp(i, a)
  <2>1. Written(i) = Cpu!Instr(i.m, <<WrittenOp(i, a), WrittenOp(i, b)>>)
    BY <1>4, WrittenTwo
  <2>2. Cpu!Decode(Encode(i)) = Cpu!Instr(i.m, <<RmOperand(Rm(a), b.s), WrittenOp(i, b)>>)
    BY <1>2
  <2> QED
    BY <2>1, <2>2, SameInstr
<1>6. MemSize(i, a) = b.s <=> a.s \in {0, b.s}
  <2>1. i.m \notin SseNames \cup {"movd", "movq", "lea"}
    BY DEF SseNames, MoveNames, ToSse, FromSse, GeneralNames, AluNames
  <2>2. MemSize(i, a) = DefaultSize(a, b.s)
    BY <2>1, SizeGeneral
  <2> QED
    BY <2>2 DEF DefaultSize
<1>7. Misread(i) <=> ~AddressKept(a.terms) \/ a.s \notin {0, b.s}
  <2>1. SizeIgnored(i) <=> a.s \notin {0, b.s}
    BY GeneralIgnored
  <2>2. ~SignedImm(i)
    BY GeneralSigned
  <2>3. MemKept(b) /\ (MemKept(a) <=> AddressKept(a.terms))
    BY DEF MemKept
  <2> QED
    BY <2>1, <2>2, <2>3, MisreadTwo, GeneralExceptions
<1> QED
  BY <1>3, <1>5, <1>6, <1>7 DEF Right

\* The size of the operand beside an immediate.
LEMMA HereTwo ==
  ASSUME NEW i, NEW a, NEW b, IsTwo(i, a, b), i.m \notin SseNames \cup {"movd", "movq", "lea"},
         a.t \in {"reg", "mem"}, SizeOk(a), b.t = "imm"
  PROVE  /\ SizeHere(i) = SizeOf(Wide(a))
         /\ a.t = "mem" => MemSize(i, a) = SizeOf(Wide(a))
         /\ BaseOk(a) /\ RmOk(Rm(a)) =>
              (RmOperand(Rm(a), SizeOf(Wide(a))) = WrittenOp(i, a) <=> MemKept(a))
<1>1. a \in Operand /\ i.ops[1] = a
  BY DEF IsTwo
<1>2. CASE a.t = "reg"
  <2>1. SizeOf(Wide(a)) = a.s
    BY <1>1, <1>2, RegWritten
  <2>2. SizeHere(i) = a.s
    BY <1>1, <1>2 DEF SizeHere
  <2>3. BaseOk(a) /\ RmOk(Rm(a)) => RmOperand(Rm(a), SizeOf(Wide(a))) = WrittenOp(i, a)
    BY <1>1, <1>2, <2>1, RmWritten DEF Kept
  <2> QED
    BY <1>2, <2>1, <2>2, <2>3 DEF MemKept
<1>3. CASE a.t = "mem"
  <2>1. MemSize(i, a) = DefaultSize(a, 4)
    BY <1>3, SizeGeneral
  <2>2. a.s \in {0, 4, 8}
    BY <1>3 DEF SizeOk
  <2>3. MemSize(i, a) = SizeOf(Wide(a))
    BY <2>1, <2>2 DEF DefaultSize, SizeOf, Wide
  <2>4. SizeHere(i) = MemSize(i, a)
    BY <1>1, <1>3 DEF SizeHere
  <2>5. BaseOk(a) /\ RmOk(Rm(a)) =>
          (RmOperand(Rm(a), SizeOf(Wide(a))) = WrittenOp(i, a) <=> AddressKept(a.terms))
    BY <1>1, <1>3, <2>3, RmWritten DEF Kept
  <2> QED
    BY <1>3, <2>3, <2>4, <2>5 DEF MemKept
<1> QED
  BY <1>2, <1>3

\* A register or memory and an immediate.
LEMMA ImmRight ==
  ASSUME NEW i, NEW a, NEW b, IsTwo(i, a, b), i.m \in GeneralNames \ {"lea", "imul"},
         ~(i.m = "mov" /\ a.t = "reg"), a.t \in {"reg", "mem"}, SizeOk(a), BaseOk(a), RmOk(Rm(a)),
         b.t = "imm", b.k = "num", FitsIn(b.v, 4),
         Cpu!Decode(Encode(i))
           = Cpu!Instr(i.m, <<RmOperand(Rm(a), SizeOf(Wide(a))),
                              Cpu!Imm32(AppendImm(b.v, 4) \o Zeros16, SizeOf(Wide(a)))>>)
  PROVE  Right(i)
<1>1. a \in Operand /\ b \in Operand /\ b.v \in Values
  BY OperandKinds DEF IsTwo
<1>2. i.m \notin SseNames \cup {"movd", "movq", "lea"}
  BY DEF SseNames, MoveNames, ToSse, FromSse, GeneralNames, AluNames
<1>3. SizeHere(i) = SizeOf(Wide(a))
  BY <1>2, HereTwo
<1>4. RmOperand(Rm(a), SizeOf(Wide(a))) = WrittenOp(i, a) <=> MemKept(a)
  BY <1>2, HereTwo
<1> DEFINE size == SizeOf(Wide(a))
           imm  == Cpu!Imm32(AppendImm(b.v, 4) \o Zeros16, size)
<1>5. imm = WrittenOp(i, b) <=> ~SignedImm(i)
  <2>1. i.m \notin DOMAIN Shift
    BY Families DEF GeneralNames, AluNames, ShiftNames
  <2>2. WrittenOp(i, b) = <<"imm", SubSeq(b.v, 1, size)>>
    BY <1>3, <2>1 DEF WrittenOp
  <2>3. size \in {4, 8}
    BY DEF SizeOf
  <2>4. imm = <<"imm", SubSeq(b.v, 1, size)>> <=> ~(size = 8 /\ Zeros(b.v, 5) /\ b.v[4] >= 128)
    BY <1>1, <2>3, Imm32Is
  <2>5. SignedImm(i) <=> size = 8 /\ Zeros(b.v, 5) /\ b.v[4] >= 128
    BY <1>3, GeneralSigned
  <2> QED
    BY <2>2, <2>4, <2>5
<1> HIDE DEF imm, size
<1>6. Written(i) = Cpu!Instr(i.m, <<WrittenOp(i, a), WrittenOp(i, b)>>)
  <2>1. WrittenName(i.m) = i.m /\ b.t # "mem"
    BY DEF GeneralNames, AluNames, WrittenName
  <2> QED
    BY <2>1, WrittenTwo
<1>7. Cpu!Decode(Encode(i)) = Cpu!Instr(i.m, <<RmOperand(Rm(a), size), imm>>)
  BY DEF imm, size
<1>8. Misread(i) <=> ~MemKept(a) \/ SignedImm(i)
  <2>1. MemKept(b) /\ ~SizeIgnored(i)
    BY GeneralIgnored DEF MemKept
  <2> QED
    BY <2>1, MisreadTwo, GeneralExceptions
<1> QED
  BY <1>4, <1>5, <1>6, <1>7, <1>8, SameInstr DEF Right, size

-----------------------------------------------------------------------------
(* Which parser a mnemonic goes to.                                        *)

\* parse: each mnemonic goes to the parser of its family.
LEMMA Dispatch ==
  ASSUME NEW m, NEW a, NEW b
  PROVE  /\ m = "mov"  => ParseTwo(m, a, b) = ParseMov(a, b)
         /\ m = "test" => ParseTwo(m, a, b) = ParseTest(a, b)
         /\ m = "xchg" => ParseTwo(m, a, b) = ParseXchg(a, b)
         /\ m = "lea"  => ParseTwo(m, a, b) = ParseLea(a, b)
         /\ m = "imul" => ParseTwo(m, a, b) = ParseImul(a, b)
         /\ m \in AluNames   => ParseTwo(m, a, b) = ParseAlu(m, a, b)
         /\ m \in ShiftNames => ParseTwo(m, a, b) = ParseShift(m, a, b)
         /\ m \in Movx       => ParseTwo(m, a, b) = ParseMovx(m, a, b)
         /\ m \in {"movd", "movq"} => ParseTwo(m, a, b) = ParseMovdq(m, a, b)
         /\ m \in SseNames   => ParseTwo(m, a, b) = ParseSse(m, a, b)
         /\ m \notin GeneralNames \cup ShiftNames \cup Movx \cup {"movd", "movq"} \cup SseNames
              => ParseTwo(m, a, b) = Error
<1>1. /\ DOMAIN Alu = AluNames
      /\ DOMAIN Shift = ShiftNames
      /\ DOMAIN SseTable = SseNames
  BY Families
<1>2. ParseTwo(m, a, b) =
        CASE m = "mov" -> ParseMov(a, b)
          [] m = "test" -> ParseTest(a, b)
          [] m = "xchg" -> ParseXchg(a, b)
          [] m = "lea" -> ParseLea(a, b)
          [] m = "imul" -> ParseImul(a, b)
          [] m \in AluNames -> ParseAlu(m, a, b)
          [] m \in ShiftNames -> ParseShift(m, a, b)
          [] m \in Movx -> ParseMovx(m, a, b)
          [] m \in {"movd", "movq"} -> ParseMovdq(m, a, b)
          [] m \in SseNames -> ParseSse(m, a, b)
          [] OTHER -> Error
  BY <1>1, Zenon DEF ParseTwo, Movx
<1>3. CASE m = "mov"
  <2>1. /\ ~(m = "test")
        /\ ~(m = "xchg")
        /\ ~(m = "lea")
        /\ ~(m = "imul")
        /\ ~(m \in AluNames)
        /\ ~(m \in ShiftNames)
        /\ ~(m \in Movx)
        /\ ~(m \in {"movd", "movq"})
        /\ ~(m \in SseNames)
    BY <1>3 DEF AluNames, ShiftNames, Movx, SseNames, MoveNames, ToSse, FromSse
  <2>2. m \in GeneralNames \cup ShiftNames \cup Movx \cup {"movd", "movq"} \cup SseNames
    BY <1>3 DEF GeneralNames
  <2> QED
    BY <1>2, <1>3, <2>1, <2>2, Zenon
<1>4. CASE m = "test"
  <2>1. /\ ~(m = "mov")
        /\ ~(m = "xchg")
        /\ ~(m = "lea")
        /\ ~(m = "imul")
        /\ ~(m \in AluNames)
        /\ ~(m \in ShiftNames)
        /\ ~(m \in Movx)
        /\ ~(m \in {"movd", "movq"})
        /\ ~(m \in SseNames)
    BY <1>4 DEF AluNames, ShiftNames, Movx, SseNames, MoveNames, ToSse, FromSse
  <2>2. m \in GeneralNames \cup ShiftNames \cup Movx \cup {"movd", "movq"} \cup SseNames
    BY <1>4 DEF GeneralNames
  <2> QED
    BY <1>2, <1>4, <2>1, <2>2, Zenon
<1>5. CASE m = "xchg"
  <2>1. /\ ~(m = "mov")
        /\ ~(m = "test")
        /\ ~(m = "lea")
        /\ ~(m = "imul")
        /\ ~(m \in AluNames)
        /\ ~(m \in ShiftNames)
        /\ ~(m \in Movx)
        /\ ~(m \in {"movd", "movq"})
        /\ ~(m \in SseNames)
    BY <1>5 DEF AluNames, ShiftNames, Movx, SseNames, MoveNames, ToSse, FromSse
  <2>2. m \in GeneralNames \cup ShiftNames \cup Movx \cup {"movd", "movq"} \cup SseNames
    BY <1>5 DEF GeneralNames
  <2> QED
    BY <1>2, <1>5, <2>1, <2>2, Zenon
<1>6. CASE m = "lea"
  <2>1. /\ ~(m = "mov")
        /\ ~(m = "test")
        /\ ~(m = "xchg")
        /\ ~(m = "imul")
        /\ ~(m \in AluNames)
        /\ ~(m \in ShiftNames)
        /\ ~(m \in Movx)
        /\ ~(m \in {"movd", "movq"})
        /\ ~(m \in SseNames)
    BY <1>6 DEF AluNames, ShiftNames, Movx, SseNames, MoveNames, ToSse, FromSse
  <2>2. m \in GeneralNames \cup ShiftNames \cup Movx \cup {"movd", "movq"} \cup SseNames
    BY <1>6 DEF GeneralNames
  <2> QED
    BY <1>2, <1>6, <2>1, <2>2, Zenon
<1>7. CASE m = "imul"
  <2>1. /\ ~(m = "mov")
        /\ ~(m = "test")
        /\ ~(m = "xchg")
        /\ ~(m = "lea")
        /\ ~(m \in AluNames)
        /\ ~(m \in ShiftNames)
        /\ ~(m \in Movx)
        /\ ~(m \in {"movd", "movq"})
        /\ ~(m \in SseNames)
    BY <1>7 DEF AluNames, ShiftNames, Movx, SseNames, MoveNames, ToSse, FromSse
  <2>2. m \in GeneralNames \cup ShiftNames \cup Movx \cup {"movd", "movq"} \cup SseNames
    BY <1>7 DEF GeneralNames
  <2> QED
    BY <1>2, <1>7, <2>1, <2>2, Zenon
<1>8. CASE m \in AluNames
  <2>1. /\ ~(m = "mov")
        /\ ~(m = "test")
        /\ ~(m = "xchg")
        /\ ~(m = "lea")
        /\ ~(m = "imul")
        /\ ~(m \in ShiftNames)
        /\ ~(m \in Movx)
        /\ ~(m \in {"movd", "movq"})
        /\ ~(m \in SseNames)
    BY <1>8 DEF AluNames, ShiftNames, Movx, SseNames, MoveNames, ToSse, FromSse
  <2>2. m \in GeneralNames \cup ShiftNames \cup Movx \cup {"movd", "movq"} \cup SseNames
    BY <1>8 DEF GeneralNames
  <2> QED
    BY <1>2, <1>8, <2>1, <2>2, Zenon
<1>9. CASE m \in ShiftNames
  <2>1. /\ ~(m = "mov")
        /\ ~(m = "test")
        /\ ~(m = "xchg")
        /\ ~(m = "lea")
        /\ ~(m = "imul")
        /\ ~(m \in AluNames)
        /\ ~(m \in Movx)
        /\ ~(m \in {"movd", "movq"})
        /\ ~(m \in SseNames)
    BY <1>9 DEF AluNames, ShiftNames, Movx, SseNames, MoveNames, ToSse, FromSse
  <2>2. m \in GeneralNames \cup ShiftNames \cup Movx \cup {"movd", "movq"} \cup SseNames
    BY <1>9 DEF GeneralNames
  <2> QED
    BY <1>2, <1>9, <2>1, <2>2, Zenon
<1>10. CASE m \in Movx
  <2>1. /\ ~(m = "mov")
        /\ ~(m = "test")
        /\ ~(m = "xchg")
        /\ ~(m = "lea")
        /\ ~(m = "imul")
        /\ ~(m \in AluNames)
        /\ ~(m \in ShiftNames)
        /\ ~(m \in {"movd", "movq"})
        /\ ~(m \in SseNames)
    BY <1>10 DEF AluNames, ShiftNames, Movx, SseNames, MoveNames, ToSse, FromSse
  <2>2. m \in GeneralNames \cup ShiftNames \cup Movx \cup {"movd", "movq"} \cup SseNames
    BY <1>10 DEF GeneralNames
  <2> QED
    BY <1>2, <1>10, <2>1, <2>2, Zenon
<1>11. CASE m \in {"movd", "movq"}
  <2>1. /\ ~(m = "mov")
        /\ ~(m = "test")
        /\ ~(m = "xchg")
        /\ ~(m = "lea")
        /\ ~(m = "imul")
        /\ ~(m \in AluNames)
        /\ ~(m \in ShiftNames)
        /\ ~(m \in Movx)
        /\ ~(m \in SseNames)
    BY <1>11 DEF AluNames, ShiftNames, Movx, SseNames, MoveNames, ToSse, FromSse
  <2>2. m \in GeneralNames \cup ShiftNames \cup Movx \cup {"movd", "movq"} \cup SseNames
    BY <1>11 DEF GeneralNames
  <2> QED
    BY <1>2, <1>11, <2>1, <2>2, Zenon
<1>12. CASE m \in SseNames
  <2>1. /\ ~(m = "mov")
        /\ ~(m = "test")
        /\ ~(m = "xchg")
        /\ ~(m = "lea")
        /\ ~(m = "imul")
        /\ ~(m \in AluNames)
        /\ ~(m \in ShiftNames)
        /\ ~(m \in Movx)
        /\ ~(m \in {"movd", "movq"})
    BY <1>12 DEF AluNames, ShiftNames, Movx, SseNames, MoveNames, ToSse, FromSse
  <2>2. m \in GeneralNames \cup ShiftNames \cup Movx \cup {"movd", "movq"} \cup SseNames
    BY <1>12 DEF GeneralNames
  <2> QED
    BY <1>2, <1>12, <2>1, <2>2, Zenon
<1>13. CASE m \notin GeneralNames \cup ShiftNames \cup Movx \cup {"movd", "movq"} \cup SseNames
  <2>1. /\ ~(m = "mov")
        /\ ~(m = "test")
        /\ ~(m = "xchg")
        /\ ~(m = "lea")
        /\ ~(m = "imul")
        /\ ~(m \in AluNames)
        /\ ~(m \in ShiftNames)
        /\ ~(m \in Movx)
        /\ ~(m \in {"movd", "movq"})
        /\ ~(m \in SseNames)
    BY <1>13 DEF GeneralNames
  <2> QED
    BY <1>2, <1>13, <2>1, Zenon
<1> QED
  BY <1>3, <1>4, <1>5, <1>6, <1>7, <1>8, <1>9, <1>10, <1>11, <1>12, <1>13 DEF GeneralNames

\* The forms the parsers make.
LEMMA Forms ==
  ASSUME NEW op, NEW w, NEW reg, NEW o, NEW p, NEW digit, NEW width
  PROVE  /\ RmR(op, w, reg, o) = RmRForm(<<>>, FALSE, op, w, reg, Rm(o))
         /\ Sse(p, op, w, reg, o) = RmRForm(p, TRUE, op, w, reg, Rm(o))
         /\ RmI(op, digit, w, o, width) = RmIForm(op, digit, w, Rm(o), width)
  BY DEF RmR, Sse, RmI, RmRForm, RmIForm, OpcodeBytes

\* What is encoded, from what is parsed.
LEMMA OneByteEncoded ==
  ASSUME NEW i, NEW op \in Nat, PlainOpcode(op), NEW w \in BOOLEAN, NEW reg \in RegNum,
         NEW o \in Operand, o.t \in {"reg", "xmm", "mem"}, BaseOk(o),
         Parse(i) = RmR(op, w, reg, o), Accepted(i)
  PROVE  /\ RmOk(Rm(o))
         /\ \E imm, imm8 : OneByteMeans(op, Low(reg), RegOperand(reg, w), RmOperand(Rm(o), SizeOf(w)),
                                        imm, imm8, Cpu!Decode(Encode(i)))
<1>1. PICK f : f = RmRForm(<<>>, FALSE, op, w, reg, Rm(o))
  OBVIOUS
<1>2. Parse(i) = f
  BY <1>1, Forms
<1>3. RmOk(Rm(o)) /\ Encode(i) = Build(f, Zero64)
  BY <1>1, <1>2, RmRAccepted
<1>4. Rm(o) \in RmForm
  BY <1>3, RmOf
<1>5. \E imm, imm8 : OneByteMeans(op, Low(reg), RegOperand(reg, w), RmOperand(Rm(o), SizeOf(w)),
                                  imm, imm8, Cpu!Decode(Build(f, Zero64)))
  BY <1>1, <1>3, <1>4, OneByteForm
<1> QED
  BY <1>3, <1>5

\* The decoder reads what the text says of such an instruction.
ReadTwoBytes(i, p, op, w, reg, o) ==
  /\ RmOk(Rm(o))
  /\ TwoBytesMean(op, PrefixByte(p), w, RegOperand(reg, w), <<"xmm", reg>>,
                  RmOperand(Rm(o), SizeOf(w)), XmmOperand(Rm(o)), ByteOperand(w, reg, Rm(o)),
                  RmOperand(Rm(o), 2), Cpu!Decode(Encode(i)))

\* An instruction with two opcode bytes, from the text to the decoder.
LEMMA TwoByteEncoded ==
  ASSUME NEW i, NEW p \in LegacyPrefixes, NEW op \in Nat, NEW w \in BOOLEAN, NEW reg \in RegNum,
         NEW o \in Operand, o.t \in {"reg", "xmm", "mem"}, BaseOk(o),
         Parse(i) = Sse(p, op, w, reg, o), Accepted(i)
  PROVE  ReadTwoBytes(i, p, op, w, reg, o)
<1>1. PICK f : f = RmRForm(p, TRUE, op, w, reg, Rm(o))
  OBVIOUS
<1>2. Parse(i) = f
  BY <1>1, Forms, Zenon
<1>3. RmOk(Rm(o)) /\ Encode(i) = Build(f, Zero64)
  BY <1>1, <1>2, RmRAccepted
<1>4. Rm(o) \in RmForm
  BY <1>3, RmOf
<1>5. TwoBytesMean(op, PrefixByte(p), w, RegOperand(reg, w), <<"xmm", reg>>,
                   RmOperand(Rm(o), SizeOf(w)), XmmOperand(Rm(o)), ByteOperand(w, reg, Rm(o)),
                   RmOperand(Rm(o), 2), Cpu!Decode(Build(f, Zero64)))
  BY <1>1, <1>3, <1>4, TwoByteForm
<1> QED
  BY <1>3, <1>5, Zenon DEF ReadTwoBytes

\* An instruction with an immediate, from the text to the decoder.
LEMMA ImmEncoded ==
  ASSUME NEW i, NEW op \in Nat, PlainOpcode(op), NEW w \in BOOLEAN, NEW digit \in 0..7,
         NEW o \in Operand, o.t \in {"reg", "mem"}, BaseOk(o), NEW width \in {0, 1, 4},
         Parse(i) = RmI(op, digit, w, o, width), Accepted(i),
         width > 0 /\ i.ops[2].k = "num" => i.ops[2].v \in Values
  PROVE  /\ RmOk(Rm(o))
         /\ width > 0 => i.ops[2].k = "num" /\ ImmFits(i.ops[2].v, width)
         /\ \E r, v : /\ width > 0 => v = i.ops[2].v
                      /\ OneByteMeans(op, digit, r, RmOperand(Rm(o), SizeOf(w)),
                                      Cpu!Imm32(AppendImm(v, width) \o Zeros16, SizeOf(w)),
                                      Cpu!Imm8(AppendImm(v, width) \o Zeros16), Cpu!Decode(Encode(i)))
<1>1. PICK f : f = RmIForm(op, digit, w, Rm(o), width)
  OBVIOUS
<1>2. Parse(i) = f
  BY <1>1, Forms
<1>3. /\ RmOk(Rm(o))
      /\ width = 0 => Encode(i) = Build(f, Zero64)
      /\ width > 0 => /\ i.ops[2].k = "num"
                      /\ ImmFits(i.ops[2].v, width)
                      /\ Encode(i) = Build(f, i.ops[2].v)
  <2>1. width \in Nat
    OBVIOUS
  <2> QED
    BY <1>1, <1>2, <2>1, RmIAccepted
<1>4. Rm(o) \in RmForm
  BY <1>3, RmOf
<1>5. PICK v \in Values : /\ ImmFits(v, width)
                          /\ Encode(i) = Build(f, v)
                          /\ width > 0 => v = i.ops[2].v
  <2>1. CASE width = 0
    <3>1. Zero64 \in Values
      <4>1. 0 \in 0..255
        OBVIOUS
      <4> QED
        BY <4>1 DEF Zero64, Values
    <3>2. ImmFits(Zero64, width)
      BY <2>1 DEF ImmFits
    <3> QED
      BY <1>3, <2>1, <3>1, <3>2
  <2>2. CASE width > 0
    BY <1>3, <2>2
  <2> QED
    BY <2>1, <2>2
<1>6. \E r : OneByteMeans(op, digit, r, RmOperand(Rm(o), SizeOf(w)),
                          Cpu!Imm32(AppendImm(v, width) \o Zeros16, SizeOf(w)),
                          Cpu!Imm8(AppendImm(v, width) \o Zeros16), Cpu!Decode(Build(f, v)))
  BY <1>1, <1>3, <1>4, <1>5, ImmForm
<1> QED
  BY <1>3, <1>5, <1>6

\* The operands an opcode has: register or memory and register, the reverse, register
\* or memory and immediate.
SaysXR(op, m) == \A q, r, x, imm, imm8, d :
  OneByteMeans(op, q, r, x, imm, imm8, d) => d = Cpu!Instr(m, <<x, r>>)
SaysRX(op, m) == \A q, r, x, imm, imm8, d :
  OneByteMeans(op, q, r, x, imm, imm8, d) => d = Cpu!Instr(m, <<r, x>>)
SaysXI(op, q, m) == \A r, x, imm, imm8, d :
  OneByteMeans(op, q, r, x, imm, imm8, d) => d = Cpu!Instr(m, <<x, imm>>)

\* A register and a register, by the opcode.
LEMMA RegRegForm ==
  ASSUME NEW i, NEW a, NEW b, IsTwo(i, a, b), i.m \in GeneralNames, Accepted(i),
         a.t = "reg", b.t = "reg", SameSize(a, b), NEW op \in Nat, PlainOpcode(op), SaysXR(op, i.m),
         Parse(i) = RmR(op, Wide(a), b.n, a)
  PROVE  Right(i)
<1>1. a \in Operand /\ b \in Operand /\ Wide(a) \in BOOLEAN /\ BaseOk(a)
  BY DEF IsTwo, Wide, BaseOk
<1>2. b.n \in RegNum
  BY <1>1, OperandKinds
<1>3. PICK imm, imm8 :
        OneByteMeans(op, Low(b.n), RegOperand(b.n, Wide(a)), RmOperand(Rm(a), SizeOf(Wide(a))),
                     imm, imm8, Cpu!Decode(Encode(i)))
  BY <1>1, <1>2, OneByteEncoded
<1>4. Cpu!Decode(Encode(i)) = Cpu!Instr(i.m, <<RmOperand(Rm(a), SizeOf(Wide(a))), RegOperand(b.n, Wide(a))>>)
  BY <1>3, Zenon DEF SaysXR
<1> QED
  BY <1>4, RegRegRight DEF SameSize

\* A register and memory, by the opcode.
LEMMA RegMemForm ==
  ASSUME NEW i, NEW a, NEW b, IsTwo(i, a, b), i.m \in GeneralNames, Accepted(i),
         a.t = "reg", b.t = "mem", BaseOk(b), NEW op \in Nat, PlainOpcode(op),
         IF i.m \in {"test", "xchg"} THEN SaysXR(op, i.m) ELSE SaysRX(op, i.m),
         Parse(i) = RmR(op, Wide(a), a.n, b)
  PROVE  Right(i)
<1>1. a \in Operand /\ b \in Operand /\ Wide(a) \in BOOLEAN
  BY DEF IsTwo, Wide
<1>2. a.n \in RegNum
  BY <1>1, OperandKinds
<1>3. RmOk(Rm(b)) /\ \E imm, imm8 :
        OneByteMeans(op, Low(a.n), RegOperand(a.n, Wide(a)), RmOperand(Rm(b), SizeOf(Wide(a))),
                     imm, imm8, Cpu!Decode(Encode(i)))
  BY <1>1, <1>2, OneByteEncoded
<1>4. IF i.m \in {"test", "xchg"}
      THEN Cpu!Decode(Encode(i)) = Cpu!Instr(i.m, <<RmOperand(Rm(b), SizeOf(Wide(a))), RegOperand(a.n, Wide(a))>>)
      ELSE Cpu!Decode(Encode(i)) = Cpu!Instr(i.m, <<RegOperand(a.n, Wide(a)), RmOperand(Rm(b), SizeOf(Wide(a)))>>)
  BY <1>3, Zenon DEF SaysXR, SaysRX
<1> QED
  BY <1>3, <1>4, RegMemRight

\* Memory and a register, by the opcode.
LEMMA MemRegForm ==
  ASSUME NEW i, NEW a, NEW b, IsTwo(i, a, b), i.m \in GeneralNames \ {"lea", "imul"}, Accepted(i),
         a.t = "mem", b.t = "reg", BaseOk(a), NEW op \in Nat, PlainOpcode(op), SaysXR(op, i.m),
         Parse(i) = RmR(op, Wide(b), b.n, a)
  PROVE  Right(i)
<1>1. a \in Operand /\ b \in Operand /\ Wide(b) \in BOOLEAN
  BY DEF IsTwo, Wide
<1>2. b.n \in RegNum
  BY <1>1, OperandKinds
<1>3. RmOk(Rm(a)) /\ \E imm, imm8 :
        OneByteMeans(op, Low(b.n), RegOperand(b.n, Wide(b)), RmOperand(Rm(a), SizeOf(Wide(b))),
                     imm, imm8, Cpu!Decode(Encode(i)))
  BY <1>1, <1>2, OneByteEncoded
<1>4. Cpu!Decode(Encode(i)) = Cpu!Instr(i.m, <<RmOperand(Rm(a), SizeOf(Wide(b))), RegOperand(b.n, Wide(b))>>)
  BY <1>3, Zenon DEF SaysXR
<1> QED
  BY <1>3, <1>4, MemRegRight

\* A register or memory and an immediate, by the opcode.
LEMMA ImmRightForm ==
  ASSUME NEW i, NEW a, NEW b, IsTwo(i, a, b), i.m \in GeneralNames \ {"lea", "imul"}, Accepted(i),
         ~(i.m = "mov" /\ a.t = "reg"), a.t \in {"reg", "mem"}, SizeOk(a), b.t = "imm", BaseOk(a),
         NEW op \in Nat, PlainOpcode(op), NEW digit \in 0..7, SaysXI(op, digit, i.m),
         Parse(i) = RmI(op, digit, Wide(a), a, 4)
  PROVE  Right(i)
<1>1. a \in Operand /\ b \in Operand /\ Wide(a) \in BOOLEAN /\ i.ops[2] = b
  BY DEF IsTwo, Wide
<1>2. 4 \in {0, 1, 4} /\ 4 > 0
  OBVIOUS
<1>3. b.k = "num" => b.v \in Values
  BY <1>1, OperandKinds
<1>4. PICK r, v :
        /\ v = b.v
        /\ OneByteMeans(op, digit, r, RmOperand(Rm(a), SizeOf(Wide(a))),
                        Cpu!Imm32(AppendImm(v, 4) \o Zeros16, SizeOf(Wide(a))),
                        Cpu!Imm8(AppendImm(v, 4) \o Zeros16), Cpu!Decode(Encode(i)))
  BY <1>1, <1>2, <1>3, ImmEncoded
<1>5. RmOk(Rm(a)) /\ b.k = "num" /\ ImmFits(b.v, 4)
  BY <1>1, <1>2, <1>3, ImmEncoded
<1>6. Cpu!Decode(Encode(i)) = Cpu!Instr(i.m, <<RmOperand(Rm(a), SizeOf(Wide(a))),
                            Cpu!Imm32(AppendImm(b.v, 4) \o Zeros16, SizeOf(Wide(a)))>>)
  BY <1>4, Zenon DEF SaysXI
<1>7. FitsIn(b.v, 4)
  BY <1>5 DEF ImmFits
<1> QED
  BY <1>5, <1>6, <1>7, ImmRight

-----------------------------------------------------------------------------
(* Each mnemonic.                                                          *)

\* parse_mov.
LEMMA MovRight ==
  ASSUME NEW i, NEW a, NEW b, IsTwo(i, a, b), i.m = "mov", Accepted(i)
  PROVE  Right(i)
<1>1. i.m \notin FixedNames /\ i.m \in GeneralNames
  BY DEF FixedNames, GeneralNames
<1>2. BaseOk(a) /\ BaseOk(b) /\ Parse(i) = ParseMov(a, b) /\ ParseMov(a, b) # Error
  BY <1>1, ParsedTwo, Dispatch
<1>3. a \in Operand /\ b \in Operand /\ i.ops[2] = b
  BY DEF IsTwo
<1>4. Wide(a) \in BOOLEAN /\ Wide(b) \in BOOLEAN
  BY DEF Wide
<1>5. CASE a.t = "reg" /\ b.t = "imm"
  <2>1. Parse(i) = [form |-> "MovRI", num |-> a.n, size |-> a.s]
    BY <1>2, <1>5 DEF ParseMov, Shape
  <2>2. /\ b.k = "num"
        /\ a.s = 8 \/ ImmFits(b.v, 4)
        /\ Encode(i) = Build([form |-> "MovRI", num |-> a.n, size |-> a.s], b.v)
    BY <1>3, <2>1, MovRIAccepted
  <2>3. a.n \in RegNum /\ a.s \in {4, 8} /\ b.v \in Values
    BY <1>3, <1>5, <2>2, OperandKinds
  <2>4. Cpu!Decode(Encode(i)) = Cpu!Instr("mov", <<<<"reg", a.n, a.s>>, <<"imm", SubSeq(b.v, 1, a.s)>>>>)
    BY <2>2, <2>3, MovRIMeans
  <2>5. WrittenOp(i, a) = <<"reg", a.n, a.s>> /\ WrittenOp(i, b) = <<"imm", SubSeq(b.v, 1, a.s)>>
    <3>1. i.m \notin DOMAIN Shift
      BY Families DEF ShiftNames
    <3>2. SizeHere(i) = a.s
      BY <1>5 DEF SizeHere, IsTwo
    <3> QED
      BY <1>3, <1>5, <2>2, <3>1, <3>2, RegWritten DEF WrittenOp
  <2>6. Written(i) = Cpu!Instr("mov", <<WrittenOp(i, a), WrittenOp(i, b)>>)
    BY <1>5, WrittenTwo DEF WrittenName
  <2>7. ~Misread(i)
    <3>1. ~SizeIgnored(i) /\ ~SignedImm(i)
      BY <1>1, <1>5, GeneralIgnored, GeneralSigned
    <3> QED
      BY <1>1, <1>5, <3>1, MisreadTwo, GeneralExceptions DEF MemKept
  <2> QED
    BY <2>4, <2>5, <2>6, <2>7 DEF Right
<1>6. CASE a.t = "reg" /\ b.t = "reg" /\ SameSize(a, b)
  <2>1. Parse(i) = RmR(137, Wide(a), b.n, a)
    BY <1>2, <1>6 DEF ParseMov, Shape
  <2>2. PlainOpcode(137) /\ SaysXR(137, "mov")
    BY DEF PlainOpcode, SaysXR, OneByteMeans
  <2> QED
    BY <1>1, <1>6, <2>1, <2>2, RegRegForm
<1>7. CASE a.t = "reg" /\ b.t = "mem"
  <2>1. Parse(i) = RmR(139, Wide(a), a.n, b)
    BY <1>2, <1>7 DEF ParseMov, Shape
  <2>2. PlainOpcode(139) /\ SaysRX(139, "mov")
    BY DEF PlainOpcode, SaysRX, OneByteMeans
  <2> QED
    BY <1>1, <1>2, <1>7, <2>1, <2>2, RegMemForm
<1>8. CASE a.t = "mem" /\ b.t = "reg"
  <2>1. Parse(i) = RmR(137, Wide(b), b.n, a)
    BY <1>2, <1>8 DEF ParseMov, Shape
  <2>2. PlainOpcode(137) /\ SaysXR(137, "mov")
    BY DEF PlainOpcode, SaysXR, OneByteMeans
  <2> QED
    BY <1>1, <1>2, <1>8, <2>1, <2>2, MemRegForm
<1>9. CASE a.t = "mem" /\ b.t = "imm" /\ SizeOk(a)
  <2>1. Parse(i) = RmI(199, 0, Wide(a), a, 4)
    BY <1>2, <1>9 DEF ParseMov, Shape
  <2>2. PlainOpcode(199) /\ SaysXI(199, 0, "mov") /\ 0 \in 0..7
    BY DEF PlainOpcode, SaysXI, OneByteMeans
  <2> QED
    BY <1>1, <1>2, <1>9, <2>1, <2>2, ImmRightForm
<1> QED
  BY <1>2, <1>5, <1>6, <1>7, <1>8, <1>9 DEF ParseMov, Shape

\* alu: opcode and digit of a mnemonic are those of the processor.
LEMMA AluTable ==
  \A m \in AluNames : /\ Alu[m][2] \in 0..7
                      /\ Alu[m][1] = 8 * Alu[m][2] + 1
                      /\ Cpu!Arithmetic[Alu[m][2] + 1] = m
<1>1. TAKE m \in AluNames
<1>2. CASE m = "add"
  BY <1>2 DEF Alu, Cpu!Arithmetic
<1>3. CASE m = "or"
  BY <1>3 DEF Alu, Cpu!Arithmetic
<1>4. CASE m = "adc"
  BY <1>4 DEF Alu, Cpu!Arithmetic
<1>5. CASE m = "sbb"
  BY <1>5 DEF Alu, Cpu!Arithmetic
<1>6. CASE m = "and"
  BY <1>6 DEF Alu, Cpu!Arithmetic
<1>7. CASE m = "sub"
  BY <1>7 DEF Alu, Cpu!Arithmetic
<1>8. CASE m = "xor"
  BY <1>8 DEF Alu, Cpu!Arithmetic
<1>9. CASE m = "cmp"
  BY <1>9 DEF Alu, Cpu!Arithmetic
<1> QED
  BY <1>2, <1>3, <1>4, <1>5, <1>6, <1>7, <1>8, <1>9 DEF AluNames

\* parse_alu.
LEMMA AluRight ==
  ASSUME NEW i, NEW a, NEW b, IsTwo(i, a, b), i.m \in AluNames, Accepted(i)
  PROVE  Right(i)
<1>1. i.m \notin FixedNames /\ i.m \in GeneralNames \ {"lea", "imul", "mov", "test", "xchg"}
  BY DEF FixedNames, GeneralNames, AluNames
<1>2. BaseOk(a) /\ BaseOk(b) /\ Parse(i) = ParseAlu(i.m, a, b) /\ ParseAlu(i.m, a, b) # Error
  BY <1>1, ParsedTwo, Dispatch
<1>3. PICK k \in 0..7 : Alu[i.m][2] = k /\ Alu[i.m][1] = 8 * k + 1 /\ Cpu!Arithmetic[k + 1] = i.m
  BY AluTable
<1> DEFINE op == 8 * k + 1
<1>4. /\ op \in Nat /\ op + 2 \in Nat /\ op + 2 = 8 * k + 3
      /\ PlainOpcode(op) /\ PlainOpcode(op + 2) /\ PlainOpcode(129)
  BY SMT DEF PlainOpcode
<1>5. SaysXR(op, i.m) /\ SaysRX(op + 2, i.m) /\ SaysXI(129, k, i.m)
  <2>1. SaysXR(op, i.m)
    <3>1. SUFFICES ASSUME NEW q, NEW r, NEW x, NEW imm, NEW imm8, NEW d,
                          OneByteMeans(op, q, r, x, imm, imm8, d)
                   PROVE  d = Cpu!Instr(i.m, <<x, r>>)
      BY Zenon DEF SaysXR
    <3>2. d = Cpu!Instr(Cpu!Arithmetic[k + 1], <<x, r>>)
      BY <1>4, <3>1 DEF OneByteMeans
    <3> QED
      BY <1>3, <3>2
  <2>2. SaysRX(op + 2, i.m)
    <3>1. SUFFICES ASSUME NEW q, NEW r, NEW x, NEW imm, NEW imm8, NEW d,
                          OneByteMeans(op + 2, q, r, x, imm, imm8, d)
                   PROVE  d = Cpu!Instr(i.m, <<r, x>>)
      BY Zenon DEF SaysRX
    <3>2. d = Cpu!Instr(Cpu!Arithmetic[k + 1], <<r, x>>)
      BY <1>4, <3>1 DEF OneByteMeans
    <3> QED
      BY <1>3, <3>2
  <2>3. SaysXI(129, k, i.m)
    BY <1>3 DEF SaysXI, OneByteMeans
  <2> QED
    BY <2>1, <2>2, <2>3
<1>6. Alu[i.m][1] = op
  BY <1>3
<1> HIDE DEF op
<1>7. CASE Shape(a, b) \in {<<"reg", "imm">>, <<"mem", "imm">>} /\ SizeOk(a)
  <2>1. Parse(i) = RmI(129, k, Wide(a), a, 4)
    BY <1>2, <1>3, <1>7 DEF ParseAlu, Shape
  <2>2. a.t \in {"reg", "mem"} /\ b.t = "imm"
    BY <1>7 DEF Shape
  <2> QED
    BY <1>1, <1>2, <1>4, <1>5, <1>7, <2>1, <2>2, ImmRightForm
<1>8. CASE a.t = "reg" /\ b.t = "reg" /\ SameSize(a, b)
  <2>1. Parse(i) = RmR(op, Wide(a), b.n, a)
    BY <1>2, <1>6, <1>8 DEF ParseAlu, Shape
  <2> QED
    BY <1>1, <1>4, <1>5, <1>8, <2>1, RegRegForm
<1>9. CASE a.t = "reg" /\ b.t = "mem"
  <2>1. Parse(i) = RmR(op + 2, Wide(a), a.n, b)
    BY <1>2, <1>6, <1>9 DEF ParseAlu, Shape
  <2> QED
    BY <1>1, <1>2, <1>4, <1>5, <1>9, <2>1, RegMemForm
<1>10. CASE a.t = "mem" /\ b.t = "reg"
  <2>1. Parse(i) = RmR(op, Wide(b), b.n, a)
    BY <1>2, <1>6, <1>10 DEF ParseAlu, Shape
  <2> QED
    BY <1>1, <1>2, <1>4, <1>5, <1>10, <2>1, MemRegForm
<1> QED
  BY <1>2, <1>7, <1>8, <1>9, <1>10 DEF ParseAlu, Shape

\* The two orders of operands of test and xchg.
LEMMA SymmetricRight ==
  ASSUME NEW i, NEW a, NEW b, IsTwo(i, a, b), i.m \in {"test", "xchg"}, Accepted(i),
         BaseOk(a), BaseOk(b), NEW op \in Nat, PlainOpcode(op), SaysXR(op, i.m),
         Parse(i) = Symmetric(op, a, b), Symmetric(op, a, b) # Error
  PROVE  Right(i)
<1>1. i.m \in GeneralNames \ {"lea", "imul"}
  BY DEF GeneralNames
<1>2. CASE a.t = "reg" /\ b.t = "reg" /\ SameSize(a, b)
  <2>1. Parse(i) = RmR(op, Wide(a), b.n, a)
    BY <1>2 DEF Symmetric, Shape
  <2> QED
    BY <1>1, <1>2, <2>1, RegRegForm
<1>3. CASE a.t = "reg" /\ b.t = "mem"
  <2>1. Parse(i) = RmR(op, Wide(a), a.n, b)
    BY <1>3 DEF Symmetric, Shape
  <2> QED
    BY <1>1, <1>3, <2>1, RegMemForm
<1>4. CASE a.t = "mem" /\ b.t = "reg"
  <2>1. Parse(i) = RmR(op, Wide(b), b.n, a)
    BY <1>4 DEF Symmetric, Shape
  <2> QED
    BY <1>1, <1>4, <2>1, MemRegForm
<1> QED
  BY <1>2, <1>3, <1>4 DEF Symmetric, Shape

\* parse_test.
LEMMA TestRight ==
  ASSUME NEW i, NEW a, NEW b, IsTwo(i, a, b), i.m = "test", Accepted(i)
  PROVE  Right(i)
<1>1. i.m \notin FixedNames /\ i.m \in GeneralNames \ {"lea", "imul"}
  BY DEF FixedNames, GeneralNames
<1>2. BaseOk(a) /\ BaseOk(b) /\ Parse(i) = ParseTest(a, b) /\ ParseTest(a, b) # Error
  BY <1>1, ParsedTwo, Dispatch
<1>3. CASE b.t = "imm" /\ a.t \in {"reg", "mem"} /\ SizeOk(a)
  <2>1. Parse(i) = RmI(247, 0, Wide(a), a, 4)
    BY <1>2, <1>3 DEF ParseTest
  <2>2. PlainOpcode(247) /\ SaysXI(247, 0, "test") /\ 0 \in 0..7
    BY DEF PlainOpcode, SaysXI, OneByteMeans
  <2> QED
    BY <1>1, <1>2, <1>3, <2>1, <2>2, ImmRightForm
<1>4. CASE ~(b.t = "imm" /\ a.t \in {"reg", "mem"} /\ SizeOk(a))
  <2>1. Parse(i) = Symmetric(133, a, b)
    BY <1>2, <1>4 DEF ParseTest
  <2>2. PlainOpcode(133) /\ SaysXR(133, "test")
    BY DEF PlainOpcode, SaysXR, OneByteMeans
  <2> QED
    BY <1>2, <2>1, <2>2, SymmetricRight
<1> QED
  BY <1>3, <1>4

\* parse_xchg.
LEMMA XchgRight ==
  ASSUME NEW i, NEW a, NEW b, IsTwo(i, a, b), i.m = "xchg", Accepted(i)
  PROVE  Right(i)
<1>1. i.m \notin FixedNames
  BY DEF FixedNames
<1>2. BaseOk(a) /\ BaseOk(b) /\ Parse(i) = Symmetric(135, a, b) /\ Symmetric(135, a, b) # Error
  BY <1>1, ParsedTwo, Dispatch DEF ParseXchg
<1>3. PlainOpcode(135) /\ SaysXR(135, "xchg")
  BY DEF PlainOpcode, SaysXR, OneByteMeans
<1> QED
  BY <1>2, <1>3, SymmetricRight

\* parse_lea.
LEMMA LeaRight ==
  ASSUME NEW i, NEW a, NEW b, IsTwo(i, a, b), i.m = "lea", Accepted(i)
  PROVE  Right(i)
<1>1. i.m \notin FixedNames /\ i.m \in GeneralNames
  BY DEF FixedNames, GeneralNames
<1>2. BaseOk(a) /\ BaseOk(b) /\ Parse(i) = ParseLea(a, b) /\ ParseLea(a, b) # Error
  BY <1>1, ParsedTwo, Dispatch
<1>3. a.t = "reg" /\ b.t = "mem" /\ Parse(i) = RmR(141, Wide(a), a.n, b)
  BY <1>2 DEF ParseLea, Are
<1>4. PlainOpcode(141) /\ SaysRX(141, "lea")
  BY DEF PlainOpcode, SaysRX, OneByteMeans
<1> QED
  BY <1>1, <1>2, <1>3, <1>4, RegMemForm

\* parse_imul.
LEMMA ImulRight ==
  ASSUME NEW i, NEW a, NEW b, IsTwo(i, a, b), i.m = "imul", Accepted(i)
  PROVE  Right(i)
<1>1. i.m \notin FixedNames /\ i.m \in GeneralNames
  BY DEF FixedNames, GeneralNames
<1>2. BaseOk(a) /\ BaseOk(b) /\ Parse(i) = ParseImul(a, b) /\ ParseImul(a, b) # Error
  BY <1>1, ParsedTwo, Dispatch
<1>3. a.t = "reg" /\ b.t \in {"reg", "mem"} /\ Parse(i) = Sse(<<>>, 175, Wide(a), a.n, b)
  BY <1>2 DEF ParseImul
<1>4. a \in Operand /\ b \in Operand /\ Wide(a) \in BOOLEAN
  BY DEF IsTwo, Wide
<1>5. a.n \in RegNum /\ <<>> \in LegacyPrefixes
  BY <1>3, <1>4, OperandKinds DEF LegacyPrefixes
<1>6. /\ RmOk(Rm(b))
      /\ TwoBytesMean(175, PrefixByte(<<>>), Wide(a), RegOperand(a.n, Wide(a)), <<"xmm", a.n>>,
                      RmOperand(Rm(b), SizeOf(Wide(a))), XmmOperand(Rm(b)),
                      ByteOperand(Wide(a), a.n, Rm(b)), RmOperand(Rm(b), 2), Cpu!Decode(Encode(i)))
  <2>1. PICK p \in LegacyPrefixes, op \in Nat : p = <<>> /\ op = 175
    BY <1>5
  <2>2. ReadTwoBytes(i, p, op, Wide(a), a.n, b)
    BY <1>2, <1>3, <1>4, <1>5, <2>1, TwoByteEncoded
  <2> QED
    BY <2>1, <2>2 DEF ReadTwoBytes
<1>7. Cpu!Decode(Encode(i)) = Cpu!Instr(i.m, <<RegOperand(a.n, Wide(a)), RmOperand(Rm(b), SizeOf(Wide(a)))>>)
  BY <1>6 DEF TwoBytesMean
<1>8. CASE b.t = "mem"
  BY <1>1, <1>2, <1>3, <1>6, <1>7, <1>8, RegMemRight
<1>9. CASE b.t = "reg"
  <2>1. RegOperand(a.n, Wide(a)) = WrittenOp(i, a) /\ SizeOf(Wide(a)) = a.s
    BY <1>3, <1>4, RegWritten
  <2>2. RmOperand(Rm(b), a.s) = WrittenOp(i, b) <=> b.s = a.s
    BY <1>2, <1>4, <1>6, <1>9, RmWritten DEF Kept
  <2>3. Written(i) = Cpu!Instr(i.m, <<WrittenOp(i, a), WrittenOp(i, b)>>)
    BY <1>9, WrittenTwo DEF WrittenName
  <2>4. SizeIgnored(i) <=> a.s # b.s
    BY <1>1, <1>3, <1>9, GeneralIgnored
  <2>5. ~SignedImm(i)
    BY <1>1, <1>9, GeneralSigned
  <2>6. Misread(i) <=> a.s # b.s
    BY <1>1, <1>3, <1>9, <2>4, <2>5, MisreadTwo, GeneralExceptions DEF MemKept
  <2> QED
    BY <1>7, <2>1, <2>2, <2>3, <2>6, SameInstr DEF Right
<1> QED
  BY <1>3, <1>8, <1>9

\* The digits of the shifts are those of the processor.
LEMMA ShiftTable ==
  \A m \in ShiftNames : /\ Shift[m] \in 0..7
                        /\ Cpu!Shifts[Shift[m] + 1] = WrittenName(m)
<1>1. TAKE m \in ShiftNames
<1>2. CASE m = "rol"
  BY <1>2 DEF Shift, Cpu!Shifts, WrittenName
<1>3. CASE m = "ror"
  BY <1>3 DEF Shift, Cpu!Shifts, WrittenName
<1>4. CASE m = "rcl"
  BY <1>4 DEF Shift, Cpu!Shifts, WrittenName
<1>5. CASE m = "rcr"
  BY <1>5 DEF Shift, Cpu!Shifts, WrittenName
<1>6. CASE m = "shl"
  BY <1>6 DEF Shift, Cpu!Shifts, WrittenName
<1>7. CASE m = "sal"
  BY <1>7 DEF Shift, Cpu!Shifts, WrittenName
<1>8. CASE m = "shr"
  BY <1>8 DEF Shift, Cpu!Shifts, WrittenName
<1>9. CASE m = "sar"
  BY <1>9 DEF Shift, Cpu!Shifts, WrittenName
<1> QED
  BY <1>2, <1>3, <1>4, <1>5, <1>6, <1>7, <1>8, <1>9 DEF ShiftNames

\* parse_shift.
LEMMA ShiftRight ==
  ASSUME NEW i, NEW a, NEW b, IsTwo(i, a, b), i.m \in ShiftNames, Accepted(i)
  PROVE  Right(i)
<1>1. /\ i.m \notin FixedNames /\ i.m \notin Movx /\ i.m \notin {"test", "xchg", "lea", "imul"}
      /\ i.m \notin SseNames \cup {"movd", "movq", "lea"} /\ i.m \in DOMAIN Shift
  BY Families DEF FixedNames, ShiftNames, Movx, SseNames, MoveNames, ToSse, FromSse
<1>2. BaseOk(a) /\ Parse(i) = ParseShift(i.m, a, b) /\ ParseShift(i.m, a, b) # Error
  BY <1>1, ParsedTwo, Dispatch
<1>3. a.t \in {"reg", "mem"} /\ b.t = "imm" /\ SizeOk(a)
  BY <1>2 DEF ParseShift
<1>4. /\ a \in Operand /\ b \in Operand /\ Wide(a) \in BOOLEAN
      /\ i.ops[1] = a /\ i.ops[2] = b
  BY DEF IsTwo, Wide
<1>5. PICK q \in 0..7 : Shift[i.m] = q /\ Cpu!Shifts[q + 1] = WrittenName(i.m)
  BY ShiftTable
<1>6. Misread(i) <=> ~MemKept(a)
  <2>1. ~HighByte(i) /\ ~SignedImm(i) /\ ~OtherMove(i)
    BY <1>1 DEF HighByte, SignedImm, OtherMove
  <2>2. ~WrongConversion(i) /\ ~OperandIgnored(i)
    BY <1>1, Families DEF WrongConversion, OperandIgnored, SseNames
  <2>3. ~SizeIgnored(i)
    BY <1>1, <1>3, <1>4 DEF SizeIgnored, SseNames
  <2>4. MemKept(b)
    BY <1>3 DEF MemKept
  <2> QED
    BY <2>1, <2>2, <2>3, <2>4, MisreadTwo DEF Exceptions
<1>7. Written(i) = Cpu!Instr(WrittenName(i.m), <<WrittenOp(i, a), WrittenOp(i, b)>>)
  BY <1>1, WrittenTwo
<1>8. RmOk(Rm(a)) => (RmOperand(Rm(a), SizeOf(Wide(a))) = WrittenOp(i, a) <=> MemKept(a))
  BY <1>1, <1>2, <1>3, HereTwo
<1>9. CASE b.k = "r8" /\ b.n = 1
  <2>1. Parse(i) = RmI(211, q, Wide(a), a, 0)
    BY <1>2, <1>3, <1>5, <1>9 DEF ParseShift
  <2>2. PlainOpcode(211) /\ 0 \in {0, 1, 4} /\ ~(0 > 0)
    BY DEF PlainOpcode
  <2>3. RmOk(Rm(a)) /\ \E r, v :
          OneByteMeans(211, q, r, RmOperand(Rm(a), SizeOf(Wide(a))),
                       Cpu!Imm32(AppendImm(v, 0) \o Zeros16, SizeOf(Wide(a))),
                       Cpu!Imm8(AppendImm(v, 0) \o Zeros16), Cpu!Decode(Encode(i)))
    BY <1>2, <1>3, <1>4, <2>1, <2>2, ImmEncoded
  <2>4. Cpu!Decode(Encode(i)) = Cpu!Instr(Cpu!Shifts[q + 1],
                                          <<RmOperand(Rm(a), SizeOf(Wide(a))), <<"reg", 1, 1>>>>)
    BY <2>3 DEF OneByteMeans
  <2>5. WrittenOp(i, b) = <<"reg", 1, 1>>
    BY <1>3, <1>9 DEF WrittenOp
  <2> QED
    BY <1>5, <1>6, <1>7, <1>8, <2>3, <2>4, <2>5, SameInstr DEF Right
<1>10. CASE ~(b.k = "r8" /\ b.n = 1)
  <2>1. Parse(i) = RmI(193, q, Wide(a), a, 1)
    BY <1>2, <1>3, <1>5, <1>10 DEF ParseShift
  <2>2. PlainOpcode(193) /\ 1 \in {0, 1, 4} /\ 1 > 0
    BY DEF PlainOpcode
  <2>3. b.k = "num" => b.v \in Values
    BY <1>3, <1>4, OperandKinds
  <2>4. RmOk(Rm(a)) /\ b.k = "num"
    BY <1>2, <1>3, <1>4, <2>1, <2>2, <2>3, ImmEncoded
  <2>5. PICK r, v :
          /\ v = b.v
          /\ OneByteMeans(193, q, r, RmOperand(Rm(a), SizeOf(Wide(a))),
                          Cpu!Imm32(AppendImm(v, 1) \o Zeros16, SizeOf(Wide(a))),
                          Cpu!Imm8(AppendImm(v, 1) \o Zeros16), Cpu!Decode(Encode(i)))
    BY <1>2, <1>3, <1>4, <2>1, <2>2, <2>3, ImmEncoded
  <2>6. Cpu!Decode(Encode(i)) = Cpu!Instr(Cpu!Shifts[q + 1],
                    <<RmOperand(Rm(a), SizeOf(Wide(a))), Cpu!Imm8(AppendImm(b.v, 1) \o Zeros16)>>)
    BY <2>5 DEF OneByteMeans
  <2>7. WrittenOp(i, b) = Cpu!Imm8(AppendImm(b.v, 1) \o Zeros16)
    <3>1. WrittenOp(i, b) = <<"imm", SubSeq(b.v, 1, 1)>>
      BY <1>1, <1>3, <2>4 DEF WrittenOp
    <3> QED
      BY <2>3, <2>4, <3>1, Imm8Is
  <2> QED
    BY <1>5, <1>6, <1>7, <1>8, <2>4, <2>6, <2>7, SameInstr DEF Right
<1> QED
  BY <1>9, <1>10

\* parse_movx.
LEMMA MovxRight ==
  ASSUME NEW i, NEW a, NEW b, IsTwo(i, a, b), i.m \in Movx, Accepted(i)
  PROVE  Right(i)
<1>1. /\ i.m \notin FixedNames /\ i.m \notin {"test", "xchg", "lea", "imul", "mov", "sal"}
      /\ i.m \notin SseNames \cup {"movd", "movq", "lea"} /\ i.m \notin DOMAIN Shift
  BY Families DEF FixedNames, ShiftNames, Movx, SseNames, MoveNames, ToSse, FromSse
<1>2. BaseOk(b) /\ Parse(i) = ParseMovx(i.m, a, b) /\ ParseMovx(i.m, a, b) # Error
  BY <1>1, ParsedTwo, Dispatch
<1>3. a.t = "reg" /\ ((b.t = "mem" /\ b.s \in {1, 2}) \/ (b.t = "imm" /\ b.k \in {"r8", "r16"}))
  BY <1>2 DEF ParseMovx
<1>4. /\ a \in Operand /\ b \in Operand /\ Wide(a) \in BOOLEAN
      /\ i.ops[1] = a /\ i.ops[2] = b
  BY DEF IsTwo, Wide
<1>5. a.n \in RegNum /\ <<>> \in LegacyPrefixes
  BY <1>3, <1>4, OperandKinds DEF LegacyPrefixes
<1>6. Written(i) = Cpu!Instr(i.m, <<WrittenOp(i, a), WrittenOp(i, b)>>)
  BY <1>1, WrittenTwo DEF WrittenName
<1>7. Exceptions(i) <=> HighByte(i)
  <2>1. ~SignedImm(i) /\ ~OtherMove(i)
    <3>1. ~SignedImm(i)
      BY <1>3, <1>4 DEF SignedImm
    <3> QED
      BY <1>1, <3>1 DEF OtherMove
  <2>2. ~WrongConversion(i) /\ ~OperandIgnored(i)
    BY <1>1, Families DEF WrongConversion, OperandIgnored, SseNames
  <2>3. ~SizeIgnored(i)
    BY <1>1 DEF SizeIgnored, SseNames
  <2> QED
    BY <2>1, <2>2, <2>3 DEF Exceptions
<1>8. WrittenOp(i, a) = RegOperand(a.n, Wide(a))
  BY <1>3, <1>4, RegWritten
<1> DEFINE byte == IF b.t = "mem" THEN b.s = 1 ELSE b.k = "r8"
           op   == (IF i.m = "movzx" THEN 182 ELSE 190) + (IF byte THEN 0 ELSE 1)
           o    == IF b.t = "mem" THEN b ELSE [t |-> "reg", n |-> b.n]
<1>9. Parse(i) = RmRForm(<<>>, TRUE, op, Wide(a), a.n, Rm(o))
  <2>1. ParseMovx(i.m, a, b) = Error \/ ParseMovx(i.m, a, b) = Sse(<<>>, op, Wide(a), a.n, o)
    BY Zenon DEF ParseMovx
  <2> HIDE DEF op, o
  <2>2. Parse(i) = Sse(<<>>, op, Wide(a), a.n, o)
    BY <1>2, <2>1, Zenon
  <2> QED
    BY <2>2, Forms
<1>10. op \in Nat
  <2> HIDE DEF byte
  <2>1. PICK p \in Nat : p = IF i.m = "movzx" THEN 182 ELSE 190
    OBVIOUS
  <2>2. PICK q \in Nat : q = IF byte THEN 0 ELSE 1
    OBVIOUS
  <2>3. p + q \in Nat
    OBVIOUS
  <2> QED
    BY <2>1, <2>2, <2>3, Zenon
<1> HIDE DEF o, op
<1>11. RmOk(Rm(o)) /\ Encode(i) = Build(RmRForm(<<>>, TRUE, op, Wide(a), a.n, Rm(o)), Zero64)
  BY <1>9, RmRAccepted
<1>12. /\ Rm(o) \in RmForm
       /\ b.t = "imm" => Rm(o) = [reg |-> b.n] /\ b.n \in RegNum
  <2>1. CASE b.t = "mem"
    BY <1>2, <1>4, <1>11, <2>1, RmOf DEF o
  <2>2. CASE b.t = "imm"
    <3>1. b.n \in RegNum
      BY <1>3, <1>4, <2>2, OperandKinds
    <3>2. Rm(o) = [reg |-> b.n]
      BY <2>2 DEF o, Rm
    <3> QED
      BY <2>2, <3>1, <3>2 DEF RmForm
  <2> QED
    BY <1>3, <2>1, <2>2
<1>13. TwoBytesMean(op, PrefixByte(<<>>), Wide(a), RegOperand(a.n, Wide(a)), <<"xmm", a.n>>,
                    RmOperand(Rm(o), SizeOf(Wide(a))), XmmOperand(Rm(o)),
                    ByteOperand(Wide(a), a.n, Rm(o)), RmOperand(Rm(o), 2), Cpu!Decode(Encode(i)))
  BY <1>4, <1>5, <1>10, <1>11, <1>12, TwoByteForm
<1>14. Cpu!Decode(Encode(i))
         = Cpu!Instr(i.m, <<RegOperand(a.n, Wide(a)),
                            IF byte THEN ByteOperand(Wide(a), a.n, Rm(o)) ELSE RmOperand(Rm(o), 2)>>)
  <2>1. CASE i.m = "movzx" /\ byte
    <3>1. op = 182
      BY <2>1 DEF op
    <3> QED
      BY <1>13, <2>1, <3>1 DEF TwoBytesMean
  <2>2. CASE i.m = "movzx" /\ ~byte
    <3>1. op = 183
      BY <2>2 DEF op
    <3> QED
      BY <1>13, <2>2, <3>1 DEF TwoBytesMean
  <2>3. CASE i.m = "movsx" /\ byte
    <3>1. op = 190
      BY <2>3 DEF op
    <3> QED
      BY <1>13, <2>3, <3>1 DEF TwoBytesMean
  <2>4. CASE i.m = "movsx" /\ ~byte
    <3>1. op = 191
      BY <2>4 DEF op
    <3> QED
      BY <1>13, <2>4, <3>1 DEF TwoBytesMean
  <2> QED
    BY <2>1, <2>2, <2>3, <2>4 DEF Movx
<1>15. CASE b.t = "mem"
  <2>1. MemSize(i, b) = b.s
    BY <1>1, <1>3, <1>15, SizeGeneral DEF DefaultSize
  <2>2. RmOperand(Rm(b), b.s) = WrittenOp(i, b) <=> AddressKept(b.terms)
    BY <1>2, <1>4, <1>11, <1>15, <2>1, RmWritten DEF Kept, o
  <2>3. ByteOperand(Wide(a), a.n, Rm(b)) = RmOperand(Rm(b), 1)
    BY <1>2, <1>4, <1>11, <1>15, RmOf DEF ByteOperand, o
  <2>4. Cpu!Decode(Encode(i)) = Cpu!Instr(i.m, <<RegOperand(a.n, Wide(a)), RmOperand(Rm(b), b.s)>>)
    BY <1>3, <1>14, <1>15, <2>3 DEF o
  <2>5. Misread(i) <=> ~AddressKept(b.terms)
    <3>1. ~HighByte(i)
      BY <1>4, <1>15 DEF HighByte
    <3> QED
      BY <1>3, <1>7, <1>15, <3>1, MisreadTwo DEF MemKept
  <2> QED
    BY <1>6, <1>8, <2>2, <2>4, <2>5, SameInstr DEF Right
<1>16. CASE b.t = "imm" /\ b.k = "r16"
  <2>1. RmOperand(Rm(o), 2) = <<"reg", b.n, 2>>
    BY <1>12, <1>16 DEF RmOperand, IsRegister
  <2>2. WrittenOp(i, b) = <<"reg", b.n, 2>>
    BY <1>16 DEF WrittenOp
  <2>3. ~HighByte(i)
    BY <1>4, <1>16 DEF HighByte
  <2>4. ~Misread(i)
    BY <1>3, <1>7, <1>16, <2>3, MisreadTwo DEF MemKept
  <2> QED
    BY <1>6, <1>8, <1>14, <1>16, <2>1, <2>2, <2>4 DEF Right
<1>17. CASE b.t = "imm" /\ b.k = "r8"
  <2>1. ByteOperand(Wide(a), a.n, Rm(o))
          = IF ~Wide(a) /\ a.n < 8 /\ b.n \in 4..7 THEN <<"high", b.n - 4>> ELSE <<"reg", b.n, 1>>
    BY <1>12, <1>17 DEF ByteOperand, RmOperand, IsRegister
  <2>2. WrittenOp(i, b) = <<"reg", b.n, 1>>
    BY <1>17 DEF WrittenOp
  <2>3. HighByte(i) <=> ~Wide(a) /\ a.n < 8 /\ b.n \in 4..7
    <3>1. a.s = 4 <=> ~Wide(a)
      BY <1>3, <1>4, OperandKinds DEF Wide
    <3> QED
      BY <1>4, <1>17, <3>1 DEF HighByte
  <2>4. ByteOperand(Wide(a), a.n, Rm(o)) = WrittenOp(i, b) <=> ~HighByte(i)
    <3>1. CASE HighByte(i)
      <4>1. ByteOperand(Wide(a), a.n, Rm(o)) = <<"high", b.n - 4>>
        BY <2>1, <2>3, <3>1
      <4>2. <<"high", b.n - 4>> # <<"reg", b.n, 1>>
        OBVIOUS
      <4> QED
        BY <2>2, <3>1, <4>1, <4>2
    <3>2. CASE ~HighByte(i)
      BY <2>1, <2>2, <2>3, <3>2
    <3> QED
      BY <3>1, <3>2
  <2>5. Misread(i) <=> HighByte(i)
    BY <1>3, <1>7, <1>17, MisreadTwo DEF MemKept
  <2> QED
    BY <1>6, <1>8, <1>14, <1>17, <2>4, <2>5, SameInstr DEF Right
<1> QED
  BY <1>3, <1>15, <1>16, <1>17

-----------------------------------------------------------------------------
(* The SSE instructions.                                                   *)

\* The operands of an opcode: SSE register and SSE register or memory, the reverse,
\* SSE register and register or memory, register and SSE register or memory.
SaysVY(op, p, m) == \A w, r, v, x, y, z, h, d :
  TwoBytesMean(op, p, w, r, v, x, y, z, h, d) => d = Cpu!Instr(m, <<v, y>>)
SaysYV(op, p, m) == \A w, r, v, x, y, z, h, d :
  TwoBytesMean(op, p, w, r, v, x, y, z, h, d) => d = Cpu!Instr(m, <<y, v>>)
SaysVX(op, p, m) == \A w, r, v, x, y, z, h, d :
  TwoBytesMean(op, p, w, r, v, x, y, z, h, d) => d = Cpu!Instr(m, <<v, x>>)
SaysRY(op, p, m) == \A w, r, v, x, y, z, h, d :
  TwoBytesMean(op, p, w, r, v, x, y, z, h, d) => d = Cpu!Instr(m, <<r, y>>)

\* The SSE opcodes of the processor.
LEMMA SseOpcodes ==
  ASSUME NEW p
  PROVE  /\ SaysVY(16, p, Cpu!Move(p)) /\ SaysYV(17, p, Cpu!Move(p))
         /\ SaysVY(40, p, IF p = 0 THEN "movaps" ELSE "movapd")
         /\ SaysYV(41, p, IF p = 0 THEN "movaps" ELSE "movapd")
         /\ SaysVX(42, p, Cpu!ByPrefix(p, <<"?", "?", "cvtsi2ss", "cvtsi2sd">>))
         /\ SaysRY(44, p, Cpu!ByPrefix(p, <<"?", "?", "cvttss2si", "cvttsd2si">>))
         /\ SaysVY(87, p, Cpu!ByPrefix(p, <<"xorps", "xorpd", "?", "?">>))
         /\ SaysVY(88, p, Cpu!ByPrefix(p, <<"addps", "addpd", "addss", "addsd">>))
         /\ SaysVY(89, p, Cpu!ByPrefix(p, <<"mulps", "mulpd", "mulss", "mulsd">>))
         /\ SaysVY(92, p, Cpu!ByPrefix(p, <<"subps", "subpd", "subss", "subsd">>))
         /\ SaysVY(94, p, Cpu!ByPrefix(p, <<"divps", "divpd", "divss", "divsd">>))
<1>1. SaysVY(16, p, Cpu!Move(p))
  BY DEF SaysVY, TwoBytesMean
<1>2. SaysYV(17, p, Cpu!Move(p))
  BY DEF SaysYV, TwoBytesMean
<1>3. SaysVY(40, p, IF p = 0 THEN "movaps" ELSE "movapd")
  BY DEF SaysVY, TwoBytesMean
<1>4. SaysYV(41, p, IF p = 0 THEN "movaps" ELSE "movapd")
  BY DEF SaysYV, TwoBytesMean
<1>5. SaysVX(42, p, Cpu!ByPrefix(p, <<"?", "?", "cvtsi2ss", "cvtsi2sd">>))
  BY DEF SaysVX, TwoBytesMean
<1>6. SaysRY(44, p, Cpu!ByPrefix(p, <<"?", "?", "cvttss2si", "cvttsd2si">>))
  BY DEF SaysRY, TwoBytesMean
<1>7. SaysVY(87, p, Cpu!ByPrefix(p, <<"xorps", "xorpd", "?", "?">>))
  BY DEF SaysVY, TwoBytesMean
<1>8. SaysVY(88, p, Cpu!ByPrefix(p, <<"addps", "addpd", "addss", "addsd">>))
  BY DEF SaysVY, TwoBytesMean
<1>9. SaysVY(89, p, Cpu!ByPrefix(p, <<"mulps", "mulpd", "mulss", "mulsd">>))
  BY DEF SaysVY, TwoBytesMean
<1>10. SaysVY(92, p, Cpu!ByPrefix(p, <<"subps", "subpd", "subss", "subsd">>))
  BY DEF SaysVY, TwoBytesMean
<1>11. SaysVY(94, p, Cpu!ByPrefix(p, <<"divps", "divpd", "divss", "divsd">>))
  BY DEF SaysVY, TwoBytesMean
<1> QED
  BY <1>1, <1>2, <1>3, <1>4, <1>5, <1>6, <1>7, <1>8, <1>9, <1>10, <1>11

\* The mnemonic that a prefix chooses.
LEMMA Prefixed ==
  ASSUME NEW m1, NEW m2, NEW m3, NEW m4
  PROVE  /\ Cpu!ByPrefix(0, <<m1, m2, m3, m4>>) = m1
         /\ Cpu!ByPrefix(102, <<m1, m2, m3, m4>>) = m2
         /\ Cpu!ByPrefix(243, <<m1, m2, m3, m4>>) = m3
         /\ Cpu!ByPrefix(242, <<m1, m2, m3, m4>>) = m4
  BY DEF Cpu!ByPrefix

\* The prefix and the opcodes of a mnemonic are those of the instruction.
SseMeans(m) ==
  /\ SseTable[m][1] \in {0, 102, 242, 243} /\ SseTable[m][2] \in Nat /\ SseTable[m][3] \in Nat
  /\ IF m \in ToSse THEN SaysVX(SseTable[m][2], SseTable[m][1], m)
     ELSE IF m \in FromSse THEN SaysRY(SseTable[m][2], SseTable[m][1], m)
     ELSE SaysVY(SseTable[m][2], SseTable[m][1], m)
  /\ SseTable[m][3] # 0 => m \notin ToSse \cup FromSse /\ SaysYV(SseTable[m][3], SseTable[m][1], m)

\* sse_table: every row means its mnemonic.
LEMMA SseTableMeans == \A m \in SseNames : SseMeans(m)
<1>1. TAKE m \in SseNames
<1>2. CASE m = "movss"
  <2>1. SseTable[m] = <<243, 16, 17>>
    BY <1>2 DEF SseTable
  <2>2. SaysVY(16, 243, "movss")
    BY SseOpcodes, Prefixed DEF Cpu!Move
  <2>3. SaysYV(17, 243, "movss")
    BY SseOpcodes, Prefixed DEF Cpu!Move
  <2> QED
    BY <1>2, <2>1, <2>2, <2>3 DEF SseMeans, ToSse, FromSse
<1>3. CASE m = "movsd"
  <2>1. SseTable[m] = <<242, 16, 17>>
    BY <1>3 DEF SseTable
  <2>2. SaysVY(16, 242, "movsd")
    BY SseOpcodes, Prefixed DEF Cpu!Move
  <2>3. SaysYV(17, 242, "movsd")
    BY SseOpcodes, Prefixed DEF Cpu!Move
  <2> QED
    BY <1>3, <2>1, <2>2, <2>3 DEF SseMeans, ToSse, FromSse
<1>4. CASE m = "movups"
  <2>1. SseTable[m] = <<0, 16, 17>>
    BY <1>4 DEF SseTable
  <2>2. SaysVY(16, 0, "movups")
    BY SseOpcodes, Prefixed DEF Cpu!Move
  <2>3. SaysYV(17, 0, "movups")
    BY SseOpcodes, Prefixed DEF Cpu!Move
  <2> QED
    BY <1>4, <2>1, <2>2, <2>3 DEF SseMeans, ToSse, FromSse
<1>5. CASE m = "movupd"
  <2>1. SseTable[m] = <<102, 16, 17>>
    BY <1>5 DEF SseTable
  <2>2. SaysVY(16, 102, "movupd")
    BY SseOpcodes, Prefixed DEF Cpu!Move
  <2>3. SaysYV(17, 102, "movupd")
    BY SseOpcodes, Prefixed DEF Cpu!Move
  <2> QED
    BY <1>5, <2>1, <2>2, <2>3 DEF SseMeans, ToSse, FromSse
<1>6. CASE m = "movaps"
  <2>1. SseTable[m] = <<0, 40, 41>>
    BY <1>6 DEF SseTable
  <2>2. SaysVY(40, 0, "movaps")
    BY SseOpcodes, Prefixed DEF Cpu!Move
  <2>3. SaysYV(41, 0, "movaps")
    BY SseOpcodes, Prefixed DEF Cpu!Move
  <2> QED
    BY <1>6, <2>1, <2>2, <2>3 DEF SseMeans, ToSse, FromSse
<1>7. CASE m = "movapd"
  <2>1. SseTable[m] = <<102, 40, 41>>
    BY <1>7 DEF SseTable
  <2>2. SaysVY(40, 102, "movapd")
    BY SseOpcodes, Prefixed DEF Cpu!Move
  <2>3. SaysYV(41, 102, "movapd")
    BY SseOpcodes, Prefixed DEF Cpu!Move
  <2> QED
    BY <1>7, <2>1, <2>2, <2>3 DEF SseMeans, ToSse, FromSse
<1>8. CASE m = "addss"
  <2>1. SseTable[m] = <<243, 88, 0>>
    BY <1>8 DEF SseTable
  <2>2. SaysVY(88, 243, "addss")
    BY SseOpcodes, Prefixed DEF Cpu!Move
  <2> QED
    BY <1>8, <2>1, <2>2 DEF SseMeans, ToSse, FromSse
<1>9. CASE m = "subss"
  <2>1. SseTable[m] = <<243, 92, 0>>
    BY <1>9 DEF SseTable
  <2>2. SaysVY(92, 243, "subss")
    BY SseOpcodes, Prefixed DEF Cpu!Move
  <2> QED
    BY <1>9, <2>1, <2>2 DEF SseMeans, ToSse, FromSse
<1>10. CASE m = "mulss"
  <2>1. SseTable[m] = <<243, 89, 0>>
    BY <1>10 DEF SseTable
  <2>2. SaysVY(89, 243, "mulss")
    BY SseOpcodes, Prefixed DEF Cpu!Move
  <2> QED
    BY <1>10, <2>1, <2>2 DEF SseMeans, ToSse, FromSse
<1>11. CASE m = "divss"
  <2>1. SseTable[m] = <<243, 94, 0>>
    BY <1>11 DEF SseTable
  <2>2. SaysVY(94, 243, "divss")
    BY SseOpcodes, Prefixed DEF Cpu!Move
  <2> QED
    BY <1>11, <2>1, <2>2 DEF SseMeans, ToSse, FromSse
<1>12. CASE m = "addsd"
  <2>1. SseTable[m] = <<242, 88, 0>>
    BY <1>12 DEF SseTable
  <2>2. SaysVY(88, 242, "addsd")
    BY SseOpcodes, Prefixed DEF Cpu!Move
  <2> QED
    BY <1>12, <2>1, <2>2 DEF SseMeans, ToSse, FromSse
<1>13. CASE m = "subsd"
  <2>1. SseTable[m] = <<242, 92, 0>>
    BY <1>13 DEF SseTable
  <2>2. SaysVY(92, 242, "subsd")
    BY SseOpcodes, Prefixed DEF Cpu!Move
  <2> QED
    BY <1>13, <2>1, <2>2 DEF SseMeans, ToSse, FromSse
<1>14. CASE m = "mulsd"
  <2>1. SseTable[m] = <<242, 89, 0>>
    BY <1>14 DEF SseTable
  <2>2. SaysVY(89, 242, "mulsd")
    BY SseOpcodes, Prefixed DEF Cpu!Move
  <2> QED
    BY <1>14, <2>1, <2>2 DEF SseMeans, ToSse, FromSse
<1>15. CASE m = "divsd"
  <2>1. SseTable[m] = <<242, 94, 0>>
    BY <1>15 DEF SseTable
  <2>2. SaysVY(94, 242, "divsd")
    BY SseOpcodes, Prefixed DEF Cpu!Move
  <2> QED
    BY <1>15, <2>1, <2>2 DEF SseMeans, ToSse, FromSse
<1>16. CASE m = "addps"
  <2>1. SseTable[m] = <<0, 88, 0>>
    BY <1>16 DEF SseTable
  <2>2. SaysVY(88, 0, "addps")
    BY SseOpcodes, Prefixed DEF Cpu!Move
  <2> QED
    BY <1>16, <2>1, <2>2 DEF SseMeans, ToSse, FromSse
<1>17. CASE m = "subps"
  <2>1. SseTable[m] = <<0, 92, 0>>
    BY <1>17 DEF SseTable
  <2>2. SaysVY(92, 0, "subps")
    BY SseOpcodes, Prefixed DEF Cpu!Move
  <2> QED
    BY <1>17, <2>1, <2>2 DEF SseMeans, ToSse, FromSse
<1>18. CASE m = "mulps"
  <2>1. SseTable[m] = <<0, 89, 0>>
    BY <1>18 DEF SseTable
  <2>2. SaysVY(89, 0, "mulps")
    BY SseOpcodes, Prefixed DEF Cpu!Move
  <2> QED
    BY <1>18, <2>1, <2>2 DEF SseMeans, ToSse, FromSse
<1>19. CASE m = "divps"
  <2>1. SseTable[m] = <<0, 94, 0>>
    BY <1>19 DEF SseTable
  <2>2. SaysVY(94, 0, "divps")
    BY SseOpcodes, Prefixed DEF Cpu!Move
  <2> QED
    BY <1>19, <2>1, <2>2 DEF SseMeans, ToSse, FromSse
<1>20. CASE m = "addpd"
  <2>1. SseTable[m] = <<102, 88, 0>>
    BY <1>20 DEF SseTable
  <2>2. SaysVY(88, 102, "addpd")
    BY SseOpcodes, Prefixed DEF Cpu!Move
  <2> QED
    BY <1>20, <2>1, <2>2 DEF SseMeans, ToSse, FromSse
<1>21. CASE m = "subpd"
  <2>1. SseTable[m] = <<102, 92, 0>>
    BY <1>21 DEF SseTable
  <2>2. SaysVY(92, 102, "subpd")
    BY SseOpcodes, Prefixed DEF Cpu!Move
  <2> QED
    BY <1>21, <2>1, <2>2 DEF SseMeans, ToSse, FromSse
<1>22. CASE m = "mulpd"
  <2>1. SseTable[m] = <<102, 89, 0>>
    BY <1>22 DEF SseTable
  <2>2. SaysVY(89, 102, "mulpd")
    BY SseOpcodes, Prefixed DEF Cpu!Move
  <2> QED
    BY <1>22, <2>1, <2>2 DEF SseMeans, ToSse, FromSse
<1>23. CASE m = "divpd"
  <2>1. SseTable[m] = <<102, 94, 0>>
    BY <1>23 DEF SseTable
  <2>2. SaysVY(94, 102, "divpd")
    BY SseOpcodes, Prefixed DEF Cpu!Move
  <2> QED
    BY <1>23, <2>1, <2>2 DEF SseMeans, ToSse, FromSse
<1>24. CASE m = "xorps"
  <2>1. SseTable[m] = <<0, 87, 0>>
    BY <1>24 DEF SseTable
  <2>2. SaysVY(87, 0, "xorps")
    BY SseOpcodes, Prefixed DEF Cpu!Move
  <2> QED
    BY <1>24, <2>1, <2>2 DEF SseMeans, ToSse, FromSse
<1>25. CASE m = "xorpd"
  <2>1. SseTable[m] = <<102, 87, 0>>
    BY <1>25 DEF SseTable
  <2>2. SaysVY(87, 102, "xorpd")
    BY SseOpcodes, Prefixed DEF Cpu!Move
  <2> QED
    BY <1>25, <2>1, <2>2 DEF SseMeans, ToSse, FromSse
<1>26. CASE m = "cvtsi2ss"
  <2>1. SseTable[m] = <<243, 42, 0>>
    BY <1>26 DEF SseTable
  <2>2. SaysVX(42, 243, "cvtsi2ss")
    BY SseOpcodes, Prefixed DEF Cpu!Move
  <2> QED
    BY <1>26, <2>1, <2>2 DEF SseMeans, ToSse, FromSse
<1>27. CASE m = "cvtsi2sd"
  <2>1. SseTable[m] = <<242, 42, 0>>
    BY <1>27 DEF SseTable
  <2>2. SaysVX(42, 242, "cvtsi2sd")
    BY SseOpcodes, Prefixed DEF Cpu!Move
  <2> QED
    BY <1>27, <2>1, <2>2 DEF SseMeans, ToSse, FromSse
<1>28. CASE m = "cvttss2si"
  <2>1. SseTable[m] = <<243, 44, 0>>
    BY <1>28 DEF SseTable
  <2>2. SaysRY(44, 243, "cvttss2si")
    BY SseOpcodes, Prefixed DEF Cpu!Move
  <2> QED
    BY <1>28, <2>1, <2>2 DEF SseMeans, ToSse, FromSse
<1>29. CASE m = "cvttsd2si"
  <2>1. SseTable[m] = <<242, 44, 0>>
    BY <1>29 DEF SseTable
  <2>2. SaysRY(44, 242, "cvttsd2si")
    BY SseOpcodes, Prefixed DEF Cpu!Move
  <2> QED
    BY <1>29, <2>1, <2>2 DEF SseMeans, ToSse, FromSse
<1> QED
  BY <1>2, <1>3, <1>4, <1>5, <1>6, <1>7, <1>8, <1>9, <1>10, <1>11, <1>12, <1>13, <1>14, <1>15,
     <1>16, <1>17, <1>18, <1>19, <1>20, <1>21, <1>22, <1>23, <1>24, <1>25, <1>26, <1>27,
     <1>28, <1>29, Zenon DEF SseNames, MoveNames, ToSse, FromSse

\* The exceptions of an SSE instruction.
LEMMA SseExceptions ==
  ASSUME NEW i, NEW a, NEW b, IsTwo(i, a, b), i.m \in SseNames, b.t # "imm"
  PROVE  Exceptions(i) <=> \/ i.m \in ToSse /\ b.t = "xmm"
                           \/ i.m \in FromSse /\ a.t = "xmm"
                           \/ i.m \in ToSse /\ b.t = "mem" /\ b.s \notin {0, 4}
<1>1. /\ i.m \notin Movx /\ i.m \notin {"movd", "movq"} /\ i.m \notin FixedNames
      /\ i.m \notin {"imul"} /\ i.m \in DOMAIN SseTable
  BY Families DEF Movx, SseNames, MoveNames, ToSse, FromSse, FixedNames
<1>2. i.ops[1] = a /\ i.ops[2] = b /\ Len(i.ops) = 2
  BY DEF IsTwo
<1>3. ~HighByte(i) /\ ~OtherMove(i) /\ ~OperandIgnored(i) /\ ~SignedImm(i)
  BY <1>1, <1>2, Families DEF HighByte, OtherMove, OperandIgnored, SignedImm
<1>4. SizeIgnored(i) <=> i.m \in ToSse /\ b.t = "mem" /\ b.s \notin {0, 4}
  BY <1>1, <1>2 DEF SizeIgnored
<1>5. WrongConversion(i) <=> (i.m \in ToSse /\ b.t = "xmm") \/ (i.m \in FromSse /\ a.t = "xmm")
  BY <1>2 DEF WrongConversion
<1> QED
  BY <1>3, <1>4, <1>5 DEF Exceptions

\* The size of memory, of an SSE instruction.
LEMMA SizeSse ==
  ASSUME NEW i, NEW a, NEW b, IsTwo(i, a, b), i.m \in SseNames, NEW o
  PROVE  /\ i.m \notin ToSse => MemSize(i, o) = 0
         /\ i.m \in ToSse => MemSize(i, o) = DefaultSize(o, 4)
<1> DEFINE beside == {i.ops[j].s : j \in {j \in DOMAIN i.ops : i.ops[j].t = "reg"}}
<1>1. DOMAIN SseTable = SseNames
  BY Families
<1>2. ASSUME i.m \notin ToSse PROVE MemSize(i, o) = 0
  <2>1. i.m \in DOMAIN SseTable \ ToSse
    BY <1>1, <1>2
  <2>2. /\ i.m # "movq"
        /\ i.m # "movd"
        /\ i.m # "lea"
    BY DEF SseNames, MoveNames, ToSse, FromSse
  <2> DEFINE other == IF o.s # 0 THEN o.s
                      ELSE IF beside # {} /\ i.m \notin ToSse THEN CHOOSE s \in beside : TRUE
                      ELSE 4
             lea   == CHOOSE s \in beside : TRUE
  <2>3. MemSize(i, o) = CASE i.m \in DOMAIN SseTable \ ToSse -> 0
                          [] i.m = "movq" -> 8
                          [] i.m = "movd" -> 4
                          [] i.m = "lea"  -> lea
                          [] OTHER -> other
    BY Zenon DEF MemSize
  <2> HIDE DEF lea, other, beside
  <2> QED
    BY <2>1, <2>2, <2>3, Zenon
<1>3. i.m \in ToSse => i.m \notin {"movq", "movd", "lea"}
  BY DEF ToSse
<1>4. ASSUME i.m \in ToSse
      PROVE  MemSize(i, o) = IF o.s # 0 THEN o.s
                             ELSE IF beside # {} /\ i.m \notin ToSse THEN CHOOSE s \in beside : TRUE
                             ELSE 4
  <2>1. /\ i.m \notin DOMAIN SseTable \ ToSse
        /\ i.m # "movq" /\ i.m # "movd" /\ i.m # "lea"
    BY <1>3, <1>4
  <2> QED
    BY <2>1, Zenon DEF MemSize
<1> HIDE DEF beside
<1>5. i.m \in ToSse => MemSize(i, o) = DefaultSize(o, 4)
  BY <1>4, Zenon DEF DefaultSize
<1> QED
  BY <1>2, <1>5

\* The legacy prefix in sse_table.
SsePrefix(m) == IF SseTable[m][1] = 0 THEN <<>> ELSE <<SseTable[m][1]>>

\* It is a legacy prefix.
LEMMA SsePrefixIs ==
  ASSUME NEW m \in SseNames
  PROVE  SsePrefix(m) \in LegacyPrefixes /\ PrefixByte(SsePrefix(m)) = SseTable[m][1]
<1>1. PICK p \in {0, 102, 242, 243} : SseTable[m][1] = p
  BY SseTableMeans DEF SseMeans
<1> QED
  BY <1>1 DEF SsePrefix, LegacyPrefixes, PrefixByte

\* The shapes of operands.
SseShape(i, a, b) ==
  \/ a.t = "xmm" /\ b.t \in {"xmm", "mem"} /\ Parse(i) = Sse(SsePrefix(i.m), SseTable[i.m][2], FALSE, a.n, b)
  \/ a.t = "xmm" /\ b.t = "reg" /\ i.m \in ToSse
       /\ Parse(i) = Sse(SsePrefix(i.m), SseTable[i.m][2], Wide(b), a.n, b)
  \/ a.t = "reg" /\ b.t \in {"xmm", "mem"} /\ i.m \in FromSse
       /\ Parse(i) = Sse(SsePrefix(i.m), SseTable[i.m][2], Wide(a), a.n, b)
  \/ a.t = "mem" /\ b.t = "xmm" /\ SseTable[i.m][3] # 0
       /\ Parse(i) = Sse(SsePrefix(i.m), SseTable[i.m][3], FALSE, b.n, a)

\* parse_sse accepts no other.
LEMMA SseShapes ==
  ASSUME NEW i, NEW a, NEW b, Parse(i) = ParseSse(i.m, a, b), Parse(i) # Error
  PROVE  SseShape(i, a, b)
  BY DEF ParseSse, SseShape, SsePrefix, Shape

\* parse_sse.
LEMMA SseRight ==
  ASSUME NEW i, NEW a, NEW b, IsTwo(i, a, b), i.m \in SseNames, Accepted(i)
  PROVE  Right(i)
<1>1. i.m \notin FixedNames /\ i.m \notin {"test", "xchg"} /\ WrittenName(i.m) = i.m
  BY DEF SseNames, MoveNames, ToSse, FromSse, FixedNames, WrittenName
<1>2. BaseOk(a) /\ BaseOk(b) /\ Parse(i) = ParseSse(i.m, a, b) /\ Parse(i) # Error
  BY <1>1, ParsedTwo, Dispatch
<1>3. SseShape(i, a, b)
  BY <1>2, SseShapes
<1>4. a \in Operand /\ b \in Operand
  BY DEF IsTwo
<1>5. PICK p \in LegacyPrefixes : p = SsePrefix(i.m) /\ PrefixByte(p) = SseTable[i.m][1]
  BY SsePrefixIs
<1>6. SseMeans(i.m) /\ SseTable[i.m][2] \in Nat /\ SseTable[i.m][3] \in Nat
  BY SseTableMeans DEF SseMeans
<1>7. Written(i) = Cpu!Instr(i.m, <<WrittenOp(i, a), WrittenOp(i, b)>>)
  BY <1>1, WrittenTwo
<1>8. ToSse \cap FromSse = {} /\ FALSE \in BOOLEAN /\ SizeOf(FALSE) = 4
  BY DEF ToSse, FromSse, SizeOf
<1>9. CASE /\ a.t = "xmm" /\ b.t \in {"xmm", "mem"}
           /\ Parse(i) = Sse(SsePrefix(i.m), SseTable[i.m][2], FALSE, a.n, b)
  <2>1. a.n \in RegNum /\ WrittenOp(i, a) = <<"xmm", a.n>>
    BY <1>4, <1>9, OperandKinds DEF WrittenOp
  <2>2. /\ RmOk(Rm(b))
        /\ TwoBytesMean(SseTable[i.m][2], SseTable[i.m][1], FALSE, RegOperand(a.n, FALSE), <<"xmm", a.n>>,
                        RmOperand(Rm(b), 4), XmmOperand(Rm(b)), ByteOperand(FALSE, a.n, Rm(b)),
                        RmOperand(Rm(b), 2), Cpu!Decode(Encode(i)))
    <3>1. ReadTwoBytes(i, p, SseTable[i.m][2], FALSE, a.n, b)
      BY <1>2, <1>4, <1>5, <1>6, <1>8, <1>9, <2>1, TwoByteEncoded
    <3> QED
      BY <1>5, <1>8, <3>1 DEF ReadTwoBytes
  <2>3. b.t # "imm" /\ MemKept(a)
    BY <1>9 DEF MemKept
  <2>4. CASE i.m \in ToSse
    <3>1. Cpu!Decode(Encode(i)) = Cpu!Instr(i.m, <<<<"xmm", a.n>>, RmOperand(Rm(b), 4)>>)
      <4>1. SaysVX(SseTable[i.m][2], SseTable[i.m][1], i.m)
        BY <1>6, <2>4 DEF SseMeans
      <4> QED
        BY <2>2, <4>1, Zenon DEF SaysVX
    <3>2. RmOperand(Rm(b), 4) = WrittenOp(i, b) <=> ~Misread(i)
      <4>1. CASE b.t = "xmm"
        <5>1. RmOperand(Rm(b), 4) = <<"reg", b.n, 4>> /\ WrittenOp(i, b) = <<"xmm", b.n>>
          BY <1>2, <1>4, <2>2, <4>1, RmOf DEF RmOperand, WrittenOp
        <5>2. <<"reg", b.n, 4>> # <<"xmm", b.n>>
          OBVIOUS
        <5>3. Misread(i)
          BY <2>3, <2>4, <4>1, SseExceptions, MisreadTwo
        <5> QED
          BY <5>1, <5>2, <5>3
      <4>2. CASE b.t = "mem"
        <5>1. RmOperand(Rm(b), 4) = WrittenOp(i, b) <=> AddressKept(b.terms) /\ MemSize(i, b) = 4
          BY <1>2, <1>4, <2>2, <4>2, RmWritten DEF Kept
        <5>2. MemSize(i, b) = 4 <=> b.s \in {0, 4}
          BY <2>4, SizeSse DEF DefaultSize
        <5>3. Misread(i) <=> ~AddressKept(b.terms) \/ b.s \notin {0, 4}
          <6>1. Exceptions(i) <=> b.s \notin {0, 4}
            BY <1>8, <2>3, <2>4, <4>2, SseExceptions
          <6> QED
            BY <2>3, <4>2, <6>1, MisreadTwo DEF MemKept
        <5> QED
          BY <5>1, <5>2, <5>3
      <4> QED
        BY <1>9, <4>1, <4>2
    <3> QED
      BY <1>7, <2>1, <3>1, <3>2, SameInstr DEF Right
  <2>5. CASE i.m \in FromSse
    <3>1. Cpu!Decode(Encode(i)) = Cpu!Instr(i.m, <<RegOperand(a.n, FALSE), XmmOperand(Rm(b))>>)
      <4>1. SaysRY(SseTable[i.m][2], SseTable[i.m][1], i.m)
        BY <1>6, <1>8, <2>5 DEF SseMeans
      <4> QED
        BY <2>2, <4>1, Zenon DEF SaysRY
    <3>2. RegOperand(a.n, FALSE) # <<"xmm", a.n>>
      BY DEF RegOperand
    <3>3. Misread(i)
      BY <1>9, <2>3, <2>5, SseExceptions, MisreadTwo
    <3> DEFINE r == RegOperand(a.n, FALSE)
               v == <<"xmm", a.n>>
    <3>4. r # v /\ WrittenOp(i, a) = v
      BY <2>1, <3>2
    <3>5. Cpu!Decode(Encode(i)) = Cpu!Instr(i.m, <<r, XmmOperand(Rm(b))>>)
      BY <3>1
    <3> HIDE DEF r, v
    <3>6. Cpu!Decode(Encode(i)) = Written(i)
            <=> Cpu!Instr(i.m, <<r, XmmOperand(Rm(b))>>) = Cpu!Instr(i.m, <<v, WrittenOp(i, b)>>)
      BY <1>7, <3>4, <3>5
    <3>7. Cpu!Decode(Encode(i)) # Written(i)
      BY <3>4, <3>6, SameInstr
    <3> QED
      BY <3>3, <3>7 DEF Right
  <2>6. CASE i.m \notin ToSse \cup FromSse
    <3>1. Cpu!Decode(Encode(i)) = Cpu!Instr(i.m, <<<<"xmm", a.n>>, XmmOperand(Rm(b))>>)
      <4>1. SaysVY(SseTable[i.m][2], SseTable[i.m][1], i.m)
        BY <1>6, <2>6 DEF SseMeans
      <4> QED
        BY <2>2, <4>1, Zenon DEF SaysVY
    <3>2. XmmOperand(Rm(b)) = WrittenOp(i, b) <=> MemKept(b)
      BY <1>2, <1>4, <1>9, <2>2, <2>6, XmmWritten, SizeSse DEF MemKept
    <3>3. Misread(i) <=> ~MemKept(b)
      BY <2>3, <2>6, SseExceptions, MisreadTwo
    <3> QED
      BY <1>7, <2>1, <3>1, <3>2, <3>3, SameInstr DEF Right
  <2> QED
    BY <2>4, <2>5, <2>6
<1>10. CASE /\ a.t = "xmm" /\ b.t = "reg" /\ i.m \in ToSse
            /\ Parse(i) = Sse(SsePrefix(i.m), SseTable[i.m][2], Wide(b), a.n, b)
  <2>1. a.n \in RegNum /\ WrittenOp(i, a) = <<"xmm", a.n>> /\ Wide(b) \in BOOLEAN
    BY <1>4, <1>10, OperandKinds DEF WrittenOp, Wide
  <2>2. /\ RmOk(Rm(b))
        /\ TwoBytesMean(SseTable[i.m][2], SseTable[i.m][1], Wide(b), RegOperand(a.n, Wide(b)), <<"xmm", a.n>>,
                        RmOperand(Rm(b), SizeOf(Wide(b))), XmmOperand(Rm(b)), ByteOperand(Wide(b), a.n, Rm(b)),
                        RmOperand(Rm(b), 2), Cpu!Decode(Encode(i)))
    <3>1. ReadTwoBytes(i, p, SseTable[i.m][2], Wide(b), a.n, b)
      BY <1>2, <1>4, <1>5, <1>6, <1>10, <2>1, TwoByteEncoded
    <3> QED
      BY <1>5, <3>1 DEF ReadTwoBytes
  <2>3. SaysVX(SseTable[i.m][2], SseTable[i.m][1], i.m)
    BY <1>6, <1>10 DEF SseMeans
  <2>4. Cpu!Decode(Encode(i)) = Cpu!Instr(i.m, <<<<"xmm", a.n>>, RmOperand(Rm(b), SizeOf(Wide(b)))>>)
    BY <2>2, <2>3, Zenon DEF SaysVX
  <2>5. SizeOf(Wide(b)) = b.s
    BY <1>4, <1>10, RegWritten
  <2>6. RmOperand(Rm(b), SizeOf(Wide(b))) = WrittenOp(i, b)
    BY <1>2, <1>4, <1>10, <2>2, <2>5, RmWritten DEF Kept
  <2>7. ~Misread(i)
    <3>1. i.m \notin FromSse
      BY <1>8, <1>10
    <3>2. ~Exceptions(i)
      BY <1>10, <3>1, SseExceptions
    <3> QED
      BY <1>10, <3>2, MisreadTwo DEF MemKept
  <2> QED
    BY <1>7, <2>1, <2>4, <2>6, <2>7 DEF Right
<1>11. CASE /\ a.t = "reg" /\ b.t \in {"xmm", "mem"} /\ i.m \in FromSse
            /\ Parse(i) = Sse(SsePrefix(i.m), SseTable[i.m][2], Wide(a), a.n, b)
  <2>1. a.n \in RegNum /\ WrittenOp(i, a) = RegOperand(a.n, Wide(a)) /\ Wide(a) \in BOOLEAN
    BY <1>4, <1>11, OperandKinds, RegWritten
  <2>2. /\ RmOk(Rm(b))
        /\ TwoBytesMean(SseTable[i.m][2], SseTable[i.m][1], Wide(a), RegOperand(a.n, Wide(a)), <<"xmm", a.n>>,
                        RmOperand(Rm(b), SizeOf(Wide(a))), XmmOperand(Rm(b)), ByteOperand(Wide(a), a.n, Rm(b)),
                        RmOperand(Rm(b), 2), Cpu!Decode(Encode(i)))
    <3>1. ReadTwoBytes(i, p, SseTable[i.m][2], Wide(a), a.n, b)
      BY <1>2, <1>4, <1>5, <1>6, <1>11, <2>1, TwoByteEncoded
    <3> QED
      BY <1>5, <3>1 DEF ReadTwoBytes
  <2>3. i.m \notin ToSse
    BY <1>8, <1>11
  <2>4. SaysRY(SseTable[i.m][2], SseTable[i.m][1], i.m)
    BY <1>6, <1>11, <2>3 DEF SseMeans
  <2>5. Cpu!Decode(Encode(i)) = Cpu!Instr(i.m, <<RegOperand(a.n, Wide(a)), XmmOperand(Rm(b))>>)
    BY <2>2, <2>4, Zenon DEF SaysRY
  <2>6. XmmOperand(Rm(b)) = WrittenOp(i, b) <=> MemKept(b)
    BY <1>2, <1>4, <1>11, <2>2, <2>3, XmmWritten, SizeSse DEF MemKept
  <2>7. Misread(i) <=> ~MemKept(b)
    <3>1. ~Exceptions(i)
      BY <1>11, <2>3, SseExceptions
    <3> QED
      BY <1>11, <3>1, MisreadTwo DEF MemKept
  <2> QED
    BY <1>7, <2>1, <2>5, <2>6, <2>7, SameInstr DEF Right
<1>12. CASE /\ a.t = "mem" /\ b.t = "xmm" /\ SseTable[i.m][3] # 0
            /\ Parse(i) = Sse(SsePrefix(i.m), SseTable[i.m][3], FALSE, b.n, a)
  <2>1. b.n \in RegNum /\ WrittenOp(i, b) = <<"xmm", b.n>>
    BY <1>4, <1>12, OperandKinds DEF WrittenOp
  <2>2. /\ RmOk(Rm(a))
        /\ TwoBytesMean(SseTable[i.m][3], SseTable[i.m][1], FALSE, RegOperand(b.n, FALSE), <<"xmm", b.n>>,
                        RmOperand(Rm(a), 4), XmmOperand(Rm(a)), ByteOperand(FALSE, b.n, Rm(a)),
                        RmOperand(Rm(a), 2), Cpu!Decode(Encode(i)))
    <3>1. ReadTwoBytes(i, p, SseTable[i.m][3], FALSE, b.n, a)
      BY <1>2, <1>4, <1>5, <1>6, <1>8, <1>12, <2>1, TwoByteEncoded
    <3> QED
      BY <1>5, <1>8, <3>1 DEF ReadTwoBytes
  <2>3. i.m \notin ToSse \cup FromSse /\ SaysYV(SseTable[i.m][3], SseTable[i.m][1], i.m)
    BY <1>6, <1>12 DEF SseMeans
  <2>4. Cpu!Decode(Encode(i)) = Cpu!Instr(i.m, <<XmmOperand(Rm(a)), <<"xmm", b.n>>>>)
    BY <2>2, <2>3, Zenon DEF SaysYV
  <2>5. XmmOperand(Rm(a)) = WrittenOp(i, a) <=> MemKept(a)
    BY <1>2, <1>4, <1>12, <2>2, <2>3, XmmWritten, SizeSse DEF MemKept
  <2>6. Misread(i) <=> ~MemKept(a)
    <3>1. ~Exceptions(i)
      BY <1>12, <2>3, SseExceptions
    <3> QED
      BY <1>12, <3>1, MisreadTwo DEF MemKept
  <2> QED
    BY <1>7, <2>1, <2>4, <2>5, <2>6, SameInstr DEF Right
<1> QED
  BY <1>3, <1>9, <1>10, <1>11, <1>12, Zenon DEF SseShape

\* The exceptions of movd and movq.
LEMMA MovdqExceptions ==
  ASSUME NEW i, NEW a, NEW b, IsTwo(i, a, b), i.m \in {"movd", "movq"},
         b.t # "imm", "xmm" \in {a.t, b.t}
  PROVE  Exceptions(i) <=>
           \E o \in {a, b} : o.t = "reg" /\ o.s # (IF i.m = "movd" THEN 4 ELSE 8)
<1>1. /\ i.m \notin Movx /\ i.m \notin FixedNames /\ i.m # "imul" /\ i.m \notin DOMAIN SseTable
      /\ i.m \notin ToSse /\ i.m \notin FromSse
  BY Families DEF Movx, SseNames, MoveNames, ToSse, FromSse, FixedNames
<1>2. i.ops[1] = a /\ i.ops[2] = b /\ Len(i.ops) = 2
  BY DEF IsTwo
<1>3. ~HighByte(i) /\ ~OperandIgnored(i) /\ ~SignedImm(i) /\ ~WrongConversion(i)
  BY <1>1, <1>2, Families DEF HighByte, OperandIgnored, SignedImm, WrongConversion
<1>4. ~SizeIgnored(i)
  <2>1. ~ \E r, o \in {a, b} : r.t = "reg" /\ o.t = "mem"
    OBVIOUS
  <2> QED
    BY <1>1, <1>2, <2>1 DEF SizeIgnored
<1>5. OtherMove(i) <=> \E o \in {a, b} : o.t = "reg" /\ o.s # (IF i.m = "movd" THEN 4 ELSE 8)
  <2>1. OtherMove(i) <=> \E j \in 1..2 : i.ops[j].t = "reg" /\ i.ops[j].s # (IF i.m = "movd" THEN 4 ELSE 8)
    BY Zenon DEF OtherMove
  <2>2. 1..2 = {1, 2}
    OBVIOUS
  <2> QED
    BY <1>2, <2>1, <2>2
<1> QED
  BY <1>3, <1>4, <1>5 DEF Exceptions

\* The size of memory, of movd and movq.
LEMMA SizeMovdq ==
  ASSUME NEW i, i.m \in {"movd", "movq"}, NEW o
  PROVE  MemSize(i, o) = SizeOf(i.m = "movq")
<1>1. i.m \notin DOMAIN SseTable \ ToSse
  BY Families DEF SseNames, MoveNames, ToSse, FromSse
<1>2. MemSize(i, o) = IF i.m = "movq" THEN 8 ELSE 4
  BY <1>1 DEF MemSize
<1> QED
  BY <1>2 DEF SizeOf

\* The moves between an SSE register and a register or memory: the opcode, the width,
\* the SSE register and the other operand.
LEMMA MovdqIs ==
  ASSUME NEW i, NEW op \in {110, 126}, NEW w \in BOOLEAN, NEW v \in RegNum, NEW o \in Operand,
         o.t \in {"reg", "mem"}, BaseOk(o), Parse(i) = Sse(<< 102 >>, op, w, v, o), Accepted(i)
  PROVE  /\ RmOk(Rm(o))
         /\ LET m == IF w THEN "movq" ELSE "movd"
                x == RmOperand(Rm(o), SizeOf(w))
            IN Cpu!Decode(Encode(i))
                 = Cpu!Instr(m, IF op = 110 THEN <<<<"xmm", v>>, x>> ELSE <<x, <<"xmm", v>>>>)
<1>1. << 102 >> \in LegacyPrefixes /\ PrefixByte(<< 102 >>) = 102 /\ op \in Nat
  BY DEF LegacyPrefixes, PrefixByte
<1>2. PICK p \in LegacyPrefixes : p = << 102 >> /\ PrefixByte(p) = 102
  BY <1>1
<1>3. /\ RmOk(Rm(o))
      /\ TwoBytesMean(op, PrefixByte(p), w, RegOperand(v, w), <<"xmm", v>>,
                      RmOperand(Rm(o), SizeOf(w)), XmmOperand(Rm(o)), ByteOperand(w, v, Rm(o)),
                      RmOperand(Rm(o), 2), Cpu!Decode(Encode(i)))
  BY <1>1, <1>2, TwoByteEncoded DEF ReadTwoBytes
<1>4. CASE op = 110
  BY <1>3, <1>4 DEF TwoBytesMean
<1>5. CASE op = 126
  BY <1>2, <1>3, <1>5 DEF TwoBytesMean
<1> QED
  BY <1>3, <1>4, <1>5

\* The accepted shapes of operands, with their forms.
MovdqShape(i, a, b) ==
  \/ a.t = "xmm" /\ b.t = "reg" /\ Parse(i) = Sse(<< 102 >>, 110, Wide(b), a.n, b)
  \/ a.t = "xmm" /\ b.t = "mem" /\ Parse(i) = Sse(<< 102 >>, 110, i.m = "movq", a.n, b)
  \/ a.t = "reg" /\ b.t = "xmm" /\ Parse(i) = Sse(<< 102 >>, 126, Wide(a), b.n, a)
  \/ a.t = "mem" /\ b.t = "xmm" /\ Parse(i) = Sse(<< 102 >>, 126, i.m = "movq", b.n, a)
  \/ a.t = "xmm" /\ b.t = "xmm" /\ i.m = "movq" /\ Parse(i) = Sse(<< 243 >>, 126, FALSE, a.n, b)

\* parse_movdq accepts no other.
LEMMA MovdqShapes ==
  ASSUME NEW i, NEW a, NEW b, Parse(i) = ParseMovdq(i.m, a, b), Parse(i) # Error
  PROVE  MovdqShape(i, a, b)
<1>1. CASE a.t = "xmm" /\ b.t = "reg"
  BY <1>1 DEF ParseMovdq, Shape, MovdqShape
<1>2. CASE a.t = "xmm" /\ b.t = "mem"
  BY <1>2 DEF ParseMovdq, Shape, MovdqShape
<1>3. CASE a.t = "reg" /\ b.t = "xmm"
  BY <1>3 DEF ParseMovdq, Shape, MovdqShape
<1>4. CASE a.t = "mem" /\ b.t = "xmm"
  BY <1>4 DEF ParseMovdq, Shape, MovdqShape
<1>5. CASE a.t = "xmm" /\ b.t = "xmm"
  BY <1>5 DEF ParseMovdq, Shape, MovdqShape
<1> QED
  BY <1>1, <1>2, <1>3, <1>4, <1>5 DEF ParseMovdq, Shape

\* parse_movdq.
LEMMA MovdqRight ==
  ASSUME NEW i, NEW a, NEW b, IsTwo(i, a, b), i.m \in {"movd", "movq"}, Accepted(i)
  PROVE  Right(i)
<1>1. i.m \notin FixedNames /\ i.m \notin {"test", "xchg"} /\ WrittenName(i.m) = i.m
  BY DEF FixedNames, WrittenName
<1>2. BaseOk(a) /\ BaseOk(b) /\ Parse(i) = ParseMovdq(i.m, a, b) /\ Parse(i) # Error
  BY <1>1, ParsedTwo, Dispatch
<1>3. a \in Operand /\ b \in Operand
  BY DEF IsTwo
<1>4. Written(i) = Cpu!Instr(i.m, <<WrittenOp(i, a), WrittenOp(i, b)>>)
  BY <1>1, WrittenTwo
<1>5. \A o \in {a, b} : o.t = "xmm" => o.n \in RegNum /\ WrittenOp(i, o) = <<"xmm", o.n>>
  BY <1>3, OperandKinds DEF WrittenOp
<1> DEFINE q == i.m = "movq"
<1>6. q \in BOOLEAN /\ i.m = (IF q THEN "movq" ELSE "movd")
  OBVIOUS
<1>7. ASSUME NEW o \in {a, b}, o.t = "reg"
      PROVE  /\ RmOk(Rm(o)) => RmOperand(Rm(o), SizeOf(Wide(o))) = WrittenOp(i, o)
             /\ Wide(o) \in BOOLEAN
             /\ o.s # (IF i.m = "movd" THEN 4 ELSE 8) <=> Wide(o) # q
  <2>1. SizeOf(Wide(o)) = o.s /\ o.s \in {4, 8} /\ Wide(o) \in BOOLEAN
    BY <1>3, <1>7, RegWritten, OperandKinds
  <2>2. RmOk(Rm(o)) => RmOperand(Rm(o), SizeOf(Wide(o))) = WrittenOp(i, o)
    BY <1>2, <1>3, <1>7, <2>1, RmWritten DEF Kept
  <2>3. o.s # (IF i.m = "movd" THEN 4 ELSE 8) <=> Wide(o) # q
    BY <2>1 DEF Wide
  <2> QED
    BY <2>1, <2>2, <2>3
<1>8. ASSUME NEW o \in {a, b}, o.t = "mem", RmOk(Rm(o))
      PROVE  RmOperand(Rm(o), SizeOf(q)) = WrittenOp(i, o) <=> MemKept(o)
  BY <1>2, <1>3, <1>8, RmWritten, SizeMovdq DEF Kept, MemKept
<1>9. MovdqShape(i, a, b)
  BY <1>2, MovdqShapes
<1> HIDE DEF q
<1>10. CASE a.t = "xmm" /\ b.t = "reg" /\ Parse(i) = Sse(<< 102 >>, 110, Wide(b), a.n, b)
  <2>1. RmOk(Rm(b)) /\ Cpu!Decode(Encode(i)) = Cpu!Instr(IF Wide(b) THEN "movq" ELSE "movd",
                              <<<<"xmm", a.n>>, RmOperand(Rm(b), SizeOf(Wide(b)))>>)
    BY <1>2, <1>3, <1>5, <1>7, <1>10, MovdqIs
  <2>2. Cpu!Decode(Encode(i)) = Written(i) <=> (IF Wide(b) THEN "movq" ELSE "movd") = i.m
    BY <1>4, <1>5, <1>7, <1>10, <2>1, SameInstr
  <2>3. Misread(i) <=> Wide(b) # q
    <3>1. Exceptions(i) <=> Wide(b) # q
      BY <1>7, <1>10, MovdqExceptions
    <3> QED
      BY <1>10, <3>1, MisreadTwo DEF MemKept
  <2> QED
    BY <1>6, <1>7, <1>10, <2>2, <2>3 DEF Right
<1>11. CASE a.t = "xmm" /\ b.t = "mem" /\ Parse(i) = Sse(<< 102 >>, 110, q, a.n, b)
  <2>1. RmOk(Rm(b)) /\ Cpu!Decode(Encode(i)) = Cpu!Instr(i.m, <<<<"xmm", a.n>>, RmOperand(Rm(b), SizeOf(q))>>)
    BY <1>2, <1>3, <1>5, <1>6, <1>11, MovdqIs
  <2>2. Cpu!Decode(Encode(i)) = Written(i) <=> MemKept(b)
    BY <1>4, <1>5, <1>8, <1>11, <2>1, SameInstr
  <2>3. Misread(i) <=> ~MemKept(b)
    BY <1>11, MovdqExceptions, MisreadTwo DEF MemKept
  <2> QED
    BY <2>2, <2>3 DEF Right
<1>12. CASE a.t = "reg" /\ b.t = "xmm" /\ Parse(i) = Sse(<< 102 >>, 126, Wide(a), b.n, a)
  <2>1. RmOk(Rm(a)) /\ Cpu!Decode(Encode(i)) = Cpu!Instr(IF Wide(a) THEN "movq" ELSE "movd",
                              <<RmOperand(Rm(a), SizeOf(Wide(a))), <<"xmm", b.n>>>>)
    BY <1>2, <1>3, <1>5, <1>7, <1>12, MovdqIs
  <2>2. Cpu!Decode(Encode(i)) = Written(i) <=> (IF Wide(a) THEN "movq" ELSE "movd") = i.m
    BY <1>4, <1>5, <1>7, <1>12, <2>1, SameInstr
  <2>3. Misread(i) <=> Wide(a) # q
    <3>1. Exceptions(i) <=> Wide(a) # q
      BY <1>7, <1>12, MovdqExceptions
    <3> QED
      BY <1>12, <3>1, MisreadTwo DEF MemKept
  <2> QED
    BY <1>6, <1>7, <1>12, <2>2, <2>3 DEF Right
<1>13. CASE a.t = "mem" /\ b.t = "xmm" /\ Parse(i) = Sse(<< 102 >>, 126, q, b.n, a)
  <2>1. RmOk(Rm(a)) /\ Cpu!Decode(Encode(i)) = Cpu!Instr(i.m, <<RmOperand(Rm(a), SizeOf(q)), <<"xmm", b.n>>>>)
    BY <1>2, <1>3, <1>5, <1>6, <1>13, MovdqIs
  <2>2. Cpu!Decode(Encode(i)) = Written(i) <=> MemKept(a)
    BY <1>4, <1>5, <1>8, <1>13, <2>1, SameInstr
  <2>3. Misread(i) <=> ~MemKept(a)
    BY <1>13, MovdqExceptions, MisreadTwo DEF MemKept
  <2> QED
    BY <2>2, <2>3 DEF Right
<1>14. CASE a.t = "xmm" /\ b.t = "xmm" /\ i.m = "movq" /\ Parse(i) = Sse(<< 243 >>, 126, FALSE, a.n, b)
  <2>1. << 243 >> \in LegacyPrefixes /\ PrefixByte(<< 243 >>) = 243 /\ 126 \in Nat /\ FALSE \in BOOLEAN
    BY DEF LegacyPrefixes, PrefixByte
  <2>2. PICK p \in LegacyPrefixes : p = << 243 >> /\ PrefixByte(p) = 243
    BY <2>1
  <2>9. PICK op \in Nat : op = 126
    BY <2>1
  <2>8. PICK w \in BOOLEAN : w = FALSE
    BY <2>1
  <2>7. Parse(i) = Sse(p, op, w, a.n, b) /\ b.t \in {"reg", "xmm", "mem"} /\ a.n \in RegNum
    BY <1>5, <1>14, <2>2, <2>8, <2>9
  <2>3. /\ RmOk(Rm(b))
        /\ TwoBytesMean(op, PrefixByte(p), w, RegOperand(a.n, w), <<"xmm", a.n>>,
                        RmOperand(Rm(b), SizeOf(w)), XmmOperand(Rm(b)), ByteOperand(w, a.n, Rm(b)),
                        RmOperand(Rm(b), 2), Cpu!Decode(Encode(i)))
    BY <1>2, <1>3, <2>1, <2>7, TwoByteEncoded DEF ReadTwoBytes
  <2>4. Cpu!Decode(Encode(i)) = Cpu!Instr("movq", <<<<"xmm", a.n>>, XmmOperand(Rm(b))>>)
    BY <2>2, <2>3, <2>8, <2>9 DEF TwoBytesMean
  <2>5. XmmOperand(Rm(b)) = WrittenOp(i, b)
    BY <1>2, <1>3, <1>14, <2>3, XmmWritten
  <2>6. ~Misread(i)
    BY <1>14, MovdqExceptions, MisreadTwo DEF MemKept
  <2> QED
    BY <1>4, <1>5, <1>14, <2>4, <2>5, <2>6 DEF Right
<1> QED
  BY <1>9, <1>10, <1>11, <1>12, <1>13, <1>14, Zenon DEF MovdqShape, q

-----------------------------------------------------------------------------
(* Instructions of one operand and of none.                                *)

\* An instruction of the operand a.
IsOne(i, a) ==
  /\ i \in Instruction /\ a \in Operand
  /\ DOMAIN i.ops = {1} /\ Len(i.ops) = 1 /\ i.ops[1] = a /\ i.ops = <<a>>

\* An instruction of one operand.
LEMMA OneOperand ==
  ASSUME NEW i \in Instruction, Len(i.ops) = 1
  PROVE  IsOne(i, i.ops[1])
<1>1. i.ops \in Seq(Operand)
  BY DEF Instruction
<1> HIDE DEF Operand
<1>2. DOMAIN i.ops = {1} /\ i.ops[1] \in Operand
  BY <1>1
<1>3. i.ops = <<i.ops[1]>>
  BY <1>1, <1>2
<1> QED
  BY <1>2, <1>3 DEF IsOne

\* The mnemonics of one operand.
OneNames == UnaryNames \cup {"push", "pop"}

\* An accepted instruction of one operand.
LEMMA ParsedOne ==
  ASSUME NEW i, NEW a, IsOne(i, a), i.m \notin FixedNames, Accepted(i)
  PROVE  /\ BaseOk(a) /\ Parse(i) = ParseOne(i.m, a) /\ Parse(i) # Error
         /\ i.m \in OneNames
         /\ i.m \in UnaryNames => Parse(i) = ParseUnary(i.m, a)
         /\ i.m \in {"push", "pop"} => Parse(i) = ParsePushPop(i.m, a)
<1>1. Parse(i) # Error
  BY AcceptedParses
<1>2. i.m \notin DOMAIN Fixed /\ DOMAIN Unary = UnaryNames
  BY Families
<1>3. DOMAIN i.ops = {1} /\ i.ops[1] = a /\ Len(i.ops) = 1
  BY DEF IsOne
<1>4. ~(\E j \in DOMAIN i.ops : ~BaseOk(i.ops[j]))
  BY <1>1, <1>2, Zenon DEF Parse
<1>5. BaseOk(a)
  BY <1>3, <1>4
<1>6. Parse(i) = ParseOne(i.m, a)
  <2>1. Parse(i) = CASE Len(i.ops) = 1 -> ParseOne(i.m, i.ops[1])
                     [] Len(i.ops) = 2 -> ParseTwo(i.m, i.ops[1], i.ops[2])
                     [] OTHER -> Error
    BY <1>2, <1>4, Zenon DEF Parse
  <2> QED
    BY <1>3, <2>1
<1>7. ParseOne(i.m, a) = CASE i.m \in UnaryNames -> ParseUnary(i.m, a)
                           [] i.m \in {"push", "pop"} -> ParsePushPop(i.m, a)
                           [] OTHER -> Error
  BY <1>2, Zenon DEF ParseOne
<1>8. UnaryNames \cap {"push", "pop"} = {}
  BY DEF UnaryNames
<1>9. CASE i.m \in UnaryNames
  <2>1. i.m \notin {"push", "pop"}
    BY <1>8, <1>9
  <2>2. ParseOne(i.m, a) = ParseUnary(i.m, a)
    BY <1>7, <1>9, <2>1, Zenon
  <2> QED
    BY <1>1, <1>5, <1>6, <1>9, <2>1, <2>2 DEF OneNames
<1>10. CASE i.m \in {"push", "pop"}
  <2>1. i.m \notin UnaryNames
    BY <1>8, <1>10
  <2>2. ParseOne(i.m, a) = ParsePushPop(i.m, a)
    BY <1>7, <1>10, <2>1, Zenon
  <2> QED
    BY <1>1, <1>5, <1>6, <1>10, <2>1, <2>2 DEF OneNames
<1>11. CASE i.m \notin UnaryNames /\ i.m \notin {"push", "pop"}
  <2>1. ParseOne(i.m, a) = Error
    BY <1>7, <1>11, Zenon
  <2> QED
    BY <1>1, <1>6, <2>1
<1> QED
  BY <1>9, <1>10, <1>11

\* The cases of a wrong address, for the memory operands there are.
LEMMA AddressCases ==
  ASSUME NEW i, \A o \in Mems(i) : o \in Operand /\ o.t = "mem"
  PROVE  (LostRegister(i) \/ ScaleCut(i) \/ NarrowAddress(i)) <=> ~(\A o \in Mems(i) : MemKept(o))
<1> DEFINE Bad(o) == \/ Cardinality(Registers(o.terms)) > 2
                     \/ \E j \in Registers(o.terms) : CutTerm(o.terms[j])
                     \/ AddressOf(o.terms).narrow
<1>1. (LostRegister(i) \/ ScaleCut(i) \/ NarrowAddress(i)) <=> \E o \in Mems(i) : Bad(o)
  BY Zenon DEF LostRegister, ScaleCut, NarrowAddress, CutTerm
<1>2. ASSUME NEW o \in Operand, o.t = "mem"
      PROVE  Bad(o) <=> ~MemKept(o)
  <2>1. o.terms \in Seq(Term)
    BY <1>2, OperandKinds
  <2>2. Cardinality(Registers(o.terms)) \in Nat
    BY <2>1, RegistersType
  <2>3. Cardinality(Registers(o.terms)) > 2 <=> ~(Cardinality(Registers(o.terms)) <= 2)
    BY <2>2
  <2> QED
    BY <1>2, <2>3, Zenon DEF MemKept, AddressKept
<1> HIDE DEF Bad
<1> QED
  BY <1>1, <1>2, Zenon

\* The exceptions of an instruction of one operand.
LEMMA MisreadOne ==
  ASSUME NEW i, NEW a, IsOne(i, a), i.m \in OneNames
  PROVE  Misread(i) <=> ~MemKept(a)
<1>1. i.m \notin Movx /\ i.m \notin {"movd", "movq"} /\ i.m \notin ToSse \cup FromSse /\ i.m \notin DOMAIN Fixed
  BY Families DEF OneNames, UnaryNames, Movx, ToSse, FromSse, FixedNames
<1>2. ~HighByte(i) /\ ~OtherMove(i) /\ ~WrongConversion(i) /\ ~OperandIgnored(i)
  BY <1>1 DEF HighByte, OtherMove, WrongConversion, OperandIgnored
<1>3. ~SignedImm(i) /\ ~SizeIgnored(i)
  BY DEF IsOne, SignedImm, SizeIgnored
<1>4. \A o : o \in Mems(i) <=> o = a /\ o.t = "mem"
  BY DEF Mems, IsOne
<1>5. (LostRegister(i) \/ ScaleCut(i) \/ NarrowAddress(i)) <=> ~(\A o \in Mems(i) : MemKept(o))
  BY <1>4, AddressCases DEF IsOne
<1>6. (\A o \in Mems(i) : MemKept(o)) <=> MemKept(a)
  BY <1>4, Zenon DEF MemKept
<1> QED
  BY <1>2, <1>3, <1>5, <1>6, Zenon DEF Misread

\* An instruction of one operand, as it is written.
LEMMA WrittenOne ==
  ASSUME NEW i, NEW a, IsOne(i, a), i.m \in OneNames
  PROVE  Written(i) = Cpu!Instr(i.m, <<WrittenOp(i, a)>>)
<1> DEFINE ops == [j \in DOMAIN i.ops |-> WrittenOp(i, i.ops[j])]
<1>1. ops = <<WrittenOp(i, a)>>
  BY DEF IsOne
<1>2. i.m \notin {"test", "xchg"} /\ i.m # "sal"
  BY DEF OneNames, UnaryNames
<1>3. Written(i) = [m   |-> IF i.m = "sal" THEN "shl" ELSE i.m,
                    ops |-> IF i.m \in {"test", "xchg"} /\ i.ops[2].t = "mem" THEN Reverse(ops) ELSE ops]
  BY Zenon DEF Written
<1> HIDE DEF ops
<1> QED
  BY <1>1, <1>2, <1>3 DEF Cpu!Instr

\* Instructions of one operand are equal when the operand is.
LEMMA SameOne ==
  ASSUME NEW m, NEW x, NEW u
  PROVE  Cpu!Instr(m, <<x>>) = Cpu!Instr(m, <<u>>) <=> x = u
  BY DEF Cpu!Instr

\* The opcodes of inc, dec, not and neg are those of the processor.
LEMMA UnaryTable ==
  \A m \in UnaryNames :
    /\ PlainOpcode(Unary[m][1]) /\ Unary[m][1] \in Nat /\ Unary[m][2] \in 0..7
    /\ \A r, x, imm, imm8, d :
         OneByteMeans(Unary[m][1], Unary[m][2], r, x, imm, imm8, d) => d = Cpu!Instr(m, <<x>>)
<1>1. TAKE m \in UnaryNames
<1>2. CASE m = "inc"
  <2>1. Unary[m] = <<255, 0>>
    BY <1>2 DEF Unary
  <2> QED
    BY <1>2, <2>1 DEF PlainOpcode, OneByteMeans
<1>3. CASE m = "dec"
  <2>1. Unary[m] = <<255, 1>>
    BY <1>3 DEF Unary
  <2> QED
    BY <1>3, <2>1 DEF PlainOpcode, OneByteMeans
<1>4. CASE m = "not"
  <2>1. Unary[m] = <<247, 2>>
    BY <1>4 DEF Unary
  <2> QED
    BY <1>4, <2>1 DEF PlainOpcode, OneByteMeans
<1>5. CASE m = "neg"
  <2>1. Unary[m] = <<247, 3>>
    BY <1>5 DEF Unary
  <2> QED
    BY <1>5, <2>1 DEF PlainOpcode, OneByteMeans
<1> QED
  BY <1>2, <1>3, <1>4, <1>5 DEF UnaryNames

\* parse_unary.
LEMMA UnaryRight ==
  ASSUME NEW i, NEW a, IsOne(i, a), i.m \in UnaryNames, Accepted(i)
  PROVE  Right(i)
<1>1. i.m \notin FixedNames /\ i.m \in OneNames
  BY DEF UnaryNames, FixedNames, OneNames
<1>2. BaseOk(a) /\ Parse(i) = ParseUnary(i.m, a) /\ Parse(i) # Error
  BY <1>1, ParsedOne
<1>3. a \in Operand /\ Wide(a) \in BOOLEAN /\ DOMAIN i.ops = {1} /\ i.ops[1] = a
  BY DEF IsOne, Wide
<1>4. PICK op \in Nat, q \in 0..7 :
        /\ op = Unary[i.m][1] /\ q = Unary[i.m][2] /\ PlainOpcode(op)
        /\ \A r, x, imm, imm8, d : OneByteMeans(op, q, r, x, imm, imm8, d) => d = Cpu!Instr(i.m, <<x>>)
  BY UnaryTable
<1>5. a.t \in {"reg", "mem"} /\ SizeOk(a) /\ Parse(i) = RmI(op, q, Wide(a), a, 0)
  BY <1>2, <1>4 DEF ParseUnary
<1>6. 0 \in {0, 1, 4} /\ ~(0 > 0)
  OBVIOUS
<1>7. RmOk(Rm(a)) /\ \E r, v :
        OneByteMeans(op, q, r, RmOperand(Rm(a), SizeOf(Wide(a))),
                     Cpu!Imm32(AppendImm(v, 0) \o Zeros16, SizeOf(Wide(a))),
                     Cpu!Imm8(AppendImm(v, 0) \o Zeros16), Cpu!Decode(Encode(i)))
  BY <1>2, <1>3, <1>4, <1>5, <1>6, ImmEncoded
<1>8. Cpu!Decode(Encode(i)) = Cpu!Instr(i.m, <<RmOperand(Rm(a), SizeOf(Wide(a)))>>)
  BY <1>4, <1>7, Zenon
<1>9. RmOperand(Rm(a), SizeOf(Wide(a))) = WrittenOp(i, a) <=> MemKept(a)
  <2>1. CASE a.t = "reg"
    BY <1>2, <1>3, <1>7, <2>1, RmWritten, RegWritten DEF Kept, MemKept
  <2>2. CASE a.t = "mem"
    <3> DEFINE beside == {i.ops[j].s : j \in {j \in DOMAIN i.ops : i.ops[j].t = "reg"}}
    <3>1. beside = {}
      BY <1>3, <2>2
    <3>2. i.m \notin DOMAIN SseTable \ ToSse /\ i.m # "movq" /\ i.m # "movd" /\ i.m # "lea"
      BY Families DEF UnaryNames, SseNames, MoveNames, ToSse, FromSse
    <3>3. MemSize(i, a) = IF a.s # 0 THEN a.s
                          ELSE IF beside # {} /\ i.m \notin ToSse THEN CHOOSE s \in beside : TRUE
                          ELSE 4
      BY <3>2, Zenon DEF MemSize
    <3> HIDE DEF beside
    <3>4. a.s \in {0, 4, 8}
      BY <1>5, <2>2 DEF SizeOk
    <3>5. MemSize(i, a) = SizeOf(Wide(a))
      BY <3>1, <3>3, <3>4 DEF SizeOf, Wide
    <3> QED
      BY <1>2, <1>3, <1>7, <2>2, <3>5, RmWritten DEF Kept, MemKept
  <2> QED
    BY <1>5, <2>1, <2>2
<1>10. Written(i) = Cpu!Instr(i.m, <<WrittenOp(i, a)>>)
  BY <1>1, WrittenOne
<1>11. Misread(i) <=> ~MemKept(a)
  BY <1>1, MisreadOne
<1>12. Cpu!Decode(Encode(i)) = Written(i) <=> RmOperand(Rm(a), SizeOf(Wide(a))) = WrittenOp(i, a)
  BY <1>8, <1>10, SameOne
<1> QED
  BY <1>9, <1>11, <1>12 DEF Right

\* parse_push_pop.
LEMMA PushPopRight ==
  ASSUME NEW i, NEW a, IsOne(i, a), i.m \in {"push", "pop"}, Accepted(i)
  PROVE  Right(i)
<1>1. i.m \notin FixedNames /\ i.m \in OneNames
  BY DEF FixedNames, OneNames
<1>2. BaseOk(a) /\ Parse(i) = ParsePushPop(i.m, a) /\ Parse(i) # Error
  BY <1>1, ParsedOne
<1>3. a \in Operand
  BY DEF IsOne
<1>4. PICK op \in {80, 88} : op = IF i.m = "push" THEN 80 ELSE 88
  OBVIOUS
<1> DEFINE f == [form |-> "Short", opcode |-> op, num |-> a.n]
<1>5. a.t = "reg" /\ a.s = 8 /\ Parse(i) = f
  <2>1. Parse(i) = IF a.t = "reg" /\ a.s = 8
                   THEN [form |-> "Short", opcode |-> op, num |-> a.n] ELSE Error
    BY <1>2, <1>4, Zenon DEF ParsePushPop
  <2> HIDE DEF f
  <2> QED
    BY <1>2, <2>1, Zenon DEF f
<1>6. a.n \in RegNum
  BY <1>3, <1>5, OperandKinds
<1>7. Encode(i) = Build(f, Zero64)
  <2>1. ~HasImm(f)
    BY DEF HasImm
  <2> HIDE DEF f
  <2> QED
    BY <1>5, <2>1, Zenon DEF Encode
<1>8. Cpu!Decode(Encode(i)) = Cpu!Instr(IF op = 80 THEN "push" ELSE "pop", <<<<"reg", a.n, 8>>>>)
  <2>1. Cpu!Decode(Build(f, Zero64)) = Cpu!Instr(IF op = 80 THEN "push" ELSE "pop", <<<<"reg", a.n, 8>>>>)
    <3>1. ShortIs(a.n, op, Zero64)
      BY <1>6, ShortMeans
    <3> QED
      BY <3>1, Zenon DEF ShortIs
  <2> HIDE DEF f
  <2> QED
    BY <1>7, <2>1
<1>9. (IF op = 80 THEN "push" ELSE "pop") = i.m
  BY <1>4
<1>10. WrittenOp(i, a) = <<"reg", a.n, 8>>
  BY <1>3, <1>5, RegWritten
<1>11. ~Misread(i)
  BY <1>1, <1>5, MisreadOne DEF MemKept
<1> QED
  BY <1>1, <1>8, <1>9, <1>10, <1>11, WrittenOne DEF Right

\* The instructions of fixed bytes, whose operands are not looked at.
LEMMA FixedRight ==
  ASSUME NEW i \in Instruction, i.m \in FixedNames
  PROVE  Right(i)
<1>1. DOMAIN Fixed = FixedNames
  BY Families
<1>2. Parse(i) = [form |-> "Raw", bytes |-> Fixed[i.m]]
  BY <1>1, Zenon DEF Parse
<1> DEFINE f == [form |-> "Raw", bytes |-> Fixed[i.m]]
<1>3. ~HasImm(f)
  BY DEF HasImm
<1>4. Build(f, Zero64) = Fixed[i.m]
  BY DEF Build
<1>5. Encode(i) = Fixed[i.m]
  <2> HIDE DEF f
  <2> QED
    BY <1>2, <1>3, <1>4, Zenon DEF Encode, f
<1>6. Cpu!Decode(Encode(i)) = Cpu!Instr(i.m, <<>>)
  BY <1>1, <1>5, RawMeans
<1>7. i.ops \in Seq(Operand)
  BY DEF Instruction
<1> DEFINE ops == [j \in DOMAIN i.ops |-> WrittenOp(i, i.ops[j])]
<1>8. Written(i) = Cpu!Instr(i.m, ops)
  <2>1. i.m \notin {"test", "xchg"} /\ i.m # "sal"
    BY DEF FixedNames
  <2>2. Written(i) = [m   |-> IF i.m = "sal" THEN "shl" ELSE i.m,
                      ops |-> IF i.m \in {"test", "xchg"} /\ i.ops[2].t = "mem" THEN Reverse(ops) ELSE ops]
    BY Zenon DEF Written
  <2> HIDE DEF ops
  <2> QED
    BY <2>1, <2>2 DEF Cpu!Instr
<1>9. ops = <<>> <=> i.ops = <<>>
  <2> HIDE DEF Operand
  <2>1. DOMAIN i.ops = 1..Len(i.ops) /\ Len(i.ops) \in Nat
    BY <1>7
  <2>2. DOMAIN ops = DOMAIN i.ops
    OBVIOUS
  <2>3. ASSUME ops = <<>> PROVE i.ops = <<>>
    <3>1. DOMAIN ops = {}
      BY <2>3
    <3>2. Len(i.ops) = 0
      <4>1. 1 \notin 1..Len(i.ops)
        BY <2>1, <2>2, <3>1
      <4> QED
        BY <2>1, <4>1
    <3> QED
      BY <1>7, <3>2
  <2>4. ASSUME i.ops = <<>> PROVE ops = <<>>
    BY <2>4
  <2> QED
    BY <2>3, <2>4
<1>10. Misread(i) <=> i.ops # <<>>
  <2>1. OperandIgnored(i) <=> i.ops # <<>>
    BY <1>1 DEF OperandIgnored
  <2>2. ASSUME i.ops = <<>> PROVE ~Misread(i)
    <3>1. Mems(i) = {}
      BY <2>2 DEF Mems
    <3>2. ~LostRegister(i) /\ ~ScaleCut(i) /\ ~NarrowAddress(i)
      BY <3>1 DEF LostRegister, ScaleCut, NarrowAddress
    <3>3. Len(i.ops) # 2
      BY <2>2
    <3>4. i.m \notin Movx /\ i.m \notin {"movd", "movq"} /\ i.m \notin ToSse \cup FromSse
      BY DEF FixedNames, Movx, ToSse, FromSse
    <3>5. ~HighByte(i) /\ ~OtherMove(i) /\ ~WrongConversion(i)
      BY <3>4 DEF HighByte, OtherMove, WrongConversion
    <3>6. ~SignedImm(i) /\ ~SizeIgnored(i)
      BY <3>3 DEF SignedImm, SizeIgnored
    <3> QED
      BY <2>1, <2>2, <3>2, <3>5, <3>6, Zenon DEF Misread
  <2> QED
    BY <2>1, <2>2, Zenon DEF Misread
<1> HIDE DEF ops
<1>11. Cpu!Instr(i.m, <<>>) = Cpu!Instr(i.m, ops) <=> ops = <<>>
  BY DEF Cpu!Instr
<1> QED
  BY <1>6, <1>8, <1>9, <1>10, <1>11 DEF Right

-----------------------------------------------------------------------------
(* Lengths.                                                                *)

\* Insn::size builds with the value zero, which fits everywhere.
LEMMA ZeroValue == Zero64 \in Values /\ \A n \in {0, 1, 4, 8} : ImmFits(Zero64, n)
<1>1. Zero64 \in Values
  BY SMT DEF Zero64, Values
<1>2. \A k \in 1..8 : Zero64[k] = 0
  BY DEF Zero64
<1>3. Zeros(Zero64, 2) /\ Zeros(Zero64, 5)
  BY <1>2 DEF Zeros
<1> QED
  BY <1>1, <1>3 DEF ImmFits, FitsIn

\* The immediate has the length of its width, whatever its value.
LEMMA SameLength ==
  ASSUME NEW e \in Seq(Nat), NEW v \in Values, NEW n \in {0, 1, 4, 8}
  PROVE  Len(e \o AppendImm(v, n)) = Len(e \o AppendImm(Zero64, n))
<1>1. PICK x \in Seq(Nat) : x = AppendImm(v, n) /\ Len(x) = n
  BY ImmType DEF IsFirst
<1>2. PICK z \in Seq(Nat) : z = AppendImm(Zero64, n) /\ Len(z) = n
  BY ZeroValue, ImmType DEF IsFirst
<1>3. Len(e \o x) = Len(e) + Len(x) /\ Len(e \o z) = Len(e) + Len(z)
  OBVIOUS
<1> QED
  BY <1>1, <1>2, <1>3

\* The length of a form does not depend on the immediate.
LengthKept(f, v) == Len(Build(f, v)) = Len(Build(f, Zero64))

\* The form of mov of an immediate to a register.
MovRIForm(num, size) == [form |-> "MovRI", num |-> num, size |-> size]

\* Its length.
LEMMA MovRILength ==
  ASSUME NEW num \in RegNum, NEW size \in {4, 8}, NEW v \in Values, size = 8 \/ ImmFits(v, 4)
  PROVE  LengthKept(MovRIForm(num, size), v)
<1> DEFINE x == Rex(size = 8, 0, 0, High(num))
           n == 184 + Low(num)
<1>1. High(num) \in {0, 1} /\ n \in Nat
  BY RegParts
<1>2. x \in Seq(Nat)
  BY <1>1, RexType
<1>3. <<n>> \in Seq(Nat)
  BY <1>1, ByteThen
<1> HIDE DEF x, n
<1>4. PICK e \in Seq(Nat) : e = x \o <<n>>
  <2>1. PICK k \in Seq(Nat) : k = <<n>>
    BY <1>3
  <2>2. x \o k \in Seq(Nat)
    BY <1>2, Concat
  <2> QED
    BY <2>1, <2>2
<1>5. ASSUME NEW u, size = 8 \/ ImmFits(u, 4)
      PROVE  Build(MovRIForm(num, size), u) = e \o AppendImm(u, size)
  BY <1>4, <1>5 DEF MovRIForm, Build, x, n
<1>6. size = 8 \/ ImmFits(Zero64, 4)
  BY ZeroValue
<1>7. Build(MovRIForm(num, size), Zero64) = e \o AppendImm(Zero64, size)
  BY <1>5, <1>6
<1>8. Build(MovRIForm(num, size), v) = e \o AppendImm(v, size)
  BY <1>5
<1>9. size \in {0, 1, 4, 8}
  OBVIOUS
<1> QED
  BY <1>7, <1>8, <1>9, SameLength DEF LengthKept

\* The length of an instruction with an immediate.
LEMMA RmILength ==
  ASSUME NEW op \in Nat, NEW digit \in 0..7, NEW w \in BOOLEAN, NEW rm \in RmForm, RmOk(rm),
         NEW width \in {1, 4}, NEW v \in Values, ImmFits(v, width)
  PROVE  LengthKept(RmIForm(op, digit, w, rm, width), v)
<1>1. PICK oc \in Seq(Nat) : oc = OpcodeBytes(FALSE, op)
  BY OpcodeType
<1>2. PICK e \in Seq(Nat) : e = EmitRm(w, digit, rm, oc)
  BY ZerosAreBytes, EmitIs DEF Emits, RegNum
<1>3. ASSUME NEW u, ImmFits(u, width)
      PROVE  Build(RmIForm(op, digit, w, rm, width), u) = e \o AppendImm(u, width)
  BY <1>1, <1>2, <1>3 DEF RmIForm, Build, OpcodeBytes
<1>4. ImmFits(Zero64, width) /\ width \in {0, 1, 4, 8}
  BY ZeroValue
<1>5. Build(RmIForm(op, digit, w, rm, width), Zero64) = e \o AppendImm(Zero64, width)
  BY <1>3, <1>4
<1>6. Build(RmIForm(op, digit, w, rm, width), v) = e \o AppendImm(v, width)
  BY <1>3
<1> QED
  BY <1>4, <1>5, <1>6, SameLength DEF LengthKept

\* The forms with an immediate, and the operands they come from.
ImmOfTwo(f, a, b) ==
  /\ b.t = "imm"
  /\ \/ a.t = "reg" /\ f = MovRIForm(a.n, a.s)
     \/ /\ a.t \in {"reg", "mem"}
        /\ \E op \in Nat, digit \in 0..7, width \in {1, 4} :
             f = RmIForm(op, digit, Wide(a), Rm(a), width)

\* The forms without an immediate.
LEMMA NoImmForms ==
  /\ ~HasImm(Error)
  /\ \A op, w, reg, o : ~HasImm(RmR(op, w, reg, o))
  /\ \A p, op, w, reg, o : ~HasImm(Sse(p, op, w, reg, o))
  /\ \A op, digit, w, o : ~HasImm(RmI(op, digit, w, o, 0))
<1>1. ~HasImm(Error)
  BY DEF HasImm, Error
<1>2. \A op, w, reg, o : ~HasImm(RmR(op, w, reg, o))
  BY DEF HasImm, RmR
<1>3. \A p, op, w, reg, o : ~HasImm(Sse(p, op, w, reg, o))
  BY DEF HasImm, Sse
<1>4. \A op, digit, w, o : ~HasImm(RmI(op, digit, w, o, 0))
  BY DEF HasImm, RmI
<1> QED
  BY <1>1, <1>2, <1>3, <1>4

\* There are no other forms with an immediate.
LEMMA ImmForms ==
  ASSUME NEW m, NEW a, NEW b, HasImm(ParseTwo(m, a, b))
  PROVE  ImmOfTwo(ParseTwo(m, a, b), a, b)
<1>1. \A op, digit, width : RmI(op, digit, Wide(a), a, width) = RmIForm(op, digit, Wide(a), Rm(a), width)
  BY Forms
<1>2. CASE m = "mov"
  <2>1. ParseTwo(m, a, b) = ParseMov(a, b)
    BY <1>2, Dispatch
  <2>2. CASE a.t = "reg" /\ b.t = "imm"
    BY <2>1, <2>2 DEF ParseMov, Shape, ImmOfTwo, MovRIForm
  <2>3. CASE a.t = "mem" /\ b.t = "imm" /\ SizeOk(a)
    <3>1. ParseMov(a, b) = RmI(199, 0, Wide(a), a, 4)
      BY <2>3 DEF ParseMov, Shape
    <3>2. 199 \in Nat /\ 0 \in 0..7 /\ 4 \in {1, 4}
      OBVIOUS
    <3> QED
      BY <1>1, <2>1, <2>3, <3>1, <3>2 DEF ImmOfTwo
  <2>4. CASE ~(a.t = "reg" /\ b.t = "imm") /\ ~(a.t = "mem" /\ b.t = "imm" /\ SizeOk(a))
    <3>1. \/ ParseMov(a, b) = Error
          \/ \E op, w, reg, o : ParseMov(a, b) = RmR(op, w, reg, o)
      BY <2>4 DEF ParseMov, Shape
    <3> QED
      BY <2>1, <3>1, NoImmForms
  <2> QED
    BY <2>2, <2>3, <2>4
<1>3. CASE m \in AluNames
  <2>1. ParseTwo(m, a, b) = ParseAlu(m, a, b)
    BY <1>3, Dispatch
  <2>2. CASE a.t \in {"reg", "mem"} /\ b.t = "imm" /\ SizeOk(a)
    <3>1. ParseAlu(m, a, b) = RmI(129, Alu[m][2], Wide(a), a, 4)
      BY <2>2 DEF ParseAlu, Shape
    <3>2. 129 \in Nat /\ Alu[m][2] \in 0..7 /\ 4 \in {1, 4}
      BY <1>3, AluTable
    <3> QED
      BY <1>1, <2>1, <2>2, <3>1, <3>2 DEF ImmOfTwo
  <2>3. CASE ~(a.t \in {"reg", "mem"} /\ b.t = "imm" /\ SizeOk(a))
    <3>1. \/ ParseAlu(m, a, b) = Error
          \/ \E op, w, reg, o : ParseAlu(m, a, b) = RmR(op, w, reg, o)
      BY <2>3 DEF ParseAlu, Shape
    <3> QED
      BY <2>1, <3>1, NoImmForms
  <2> QED
    BY <2>2, <2>3
<1>4. ASSUME NEW op
      PROVE  ~HasImm(Symmetric(op, a, b))
  <2>1. \/ Symmetric(op, a, b) = Error
        \/ \E w, reg, o : Symmetric(op, a, b) = RmR(op, w, reg, o)
    BY DEF Symmetric, Shape
  <2> QED
    BY <2>1, NoImmForms
<1>5. CASE m = "test"
  <2>1. ParseTwo(m, a, b) = ParseTest(a, b)
    BY <1>5, Dispatch
  <2>2. CASE b.t = "imm" /\ a.t \in {"reg", "mem"} /\ SizeOk(a)
    <3>1. ParseTest(a, b) = RmI(247, 0, Wide(a), a, 4)
      BY <2>2 DEF ParseTest
    <3>2. 247 \in Nat /\ 0 \in 0..7 /\ 4 \in {1, 4}
      OBVIOUS
    <3> QED
      BY <1>1, <2>1, <2>2, <3>1, <3>2 DEF ImmOfTwo
  <2>3. CASE ~(b.t = "imm" /\ a.t \in {"reg", "mem"} /\ SizeOk(a))
    BY <1>4, <2>1, <2>3 DEF ParseTest
  <2> QED
    BY <2>2, <2>3
<1>6. m # "xchg"
  <2>1. m = "xchg" => ParseTwo(m, a, b) = Symmetric(135, a, b)
    BY Dispatch DEF ParseXchg
  <2> QED
    BY <1>4, <2>1
<1>7. m # "lea" /\ m # "imul"
  <2>1. m = "lea" => ParseTwo(m, a, b) = ParseLea(a, b)
    BY Dispatch
  <2>2. m = "imul" => ParseTwo(m, a, b) = ParseImul(a, b)
    BY Dispatch
  <2> QED
    BY <2>1, <2>2, NoImmForms DEF ParseLea, ParseImul
<1>8. CASE m \in ShiftNames
  <2>1. ParseTwo(m, a, b) = ParseShift(m, a, b)
    BY <1>8, Dispatch
  <2>2. ParseShift(m, a, b) # Error
    BY <2>1, NoImmForms
  <2>3. a.t \in {"reg", "mem"} /\ b.t = "imm"
    BY <2>2 DEF ParseShift
  <2>4. ~(b.k = "r8" /\ b.n = 1)
    <3>1. b.k = "r8" /\ b.n = 1 => ParseShift(m, a, b) = RmI(211, Shift[m], Wide(a), a, 0)
      BY <2>2 DEF ParseShift
    <3> QED
      BY <2>1, <3>1, NoImmForms
  <2>5. ParseShift(m, a, b) = RmI(193, Shift[m], Wide(a), a, 1)
    BY <2>2, <2>4 DEF ParseShift
  <2>6. 193 \in Nat /\ Shift[m] \in 0..7 /\ 1 \in {1, 4}
    BY <1>8, ShiftTable
  <2> QED
    BY <1>1, <2>1, <2>3, <2>5, <2>6 DEF ImmOfTwo
<1>9. m \notin Movx
  <2>1. m \in Movx => ParseTwo(m, a, b) = ParseMovx(m, a, b)
    BY Dispatch
  <2> DEFINE byte == IF b.t = "mem" THEN b.s = 1 ELSE b.k = "r8"
             op   == (IF m = "movzx" THEN 182 ELSE 190) + (IF byte THEN 0 ELSE 1)
             o    == IF b.t = "mem" THEN b ELSE [t |-> "reg", n |-> b.n]
  <2>2. ParseMovx(m, a, b) = Error \/ ParseMovx(m, a, b) = Sse(<<>>, op, Wide(a), a.n, o)
    BY Zenon DEF ParseMovx
  <2> HIDE DEF op, o
  <2> QED
    BY <2>1, <2>2, NoImmForms
<1>10. m \notin {"movd", "movq"}
  <2>1. m \in {"movd", "movq"} => ParseTwo(m, a, b) = ParseMovdq(m, a, b)
    BY Dispatch
  <2> DEFINE q == m = "movq"
  <2>0. PICK p1, p2, op1, op2 : p1 = << 102 >> /\ p2 = << 243 >> /\ op1 = 110 /\ op2 = 126
    OBVIOUS
  <2>2. \/ ParseMovdq(m, a, b) = Error
        \/ ParseMovdq(m, a, b) = Sse(p1, op1, Wide(b), a.n, b)
        \/ ParseMovdq(m, a, b) = Sse(p1, op1, q, a.n, b)
        \/ ParseMovdq(m, a, b) = Sse(p1, op2, Wide(a), b.n, a)
        \/ ParseMovdq(m, a, b) = Sse(p1, op2, q, b.n, a)
        \/ ParseMovdq(m, a, b) = Sse(p2, op2, FALSE, a.n, b)
    <3>1. CASE a.t = "xmm" /\ b.t = "reg"
      BY <2>0, <3>1 DEF ParseMovdq, Shape
    <3>2. CASE a.t = "xmm" /\ b.t = "mem"
      BY <2>0, <3>2 DEF ParseMovdq, Shape
    <3>3. CASE a.t = "reg" /\ b.t = "xmm"
      BY <2>0, <3>3 DEF ParseMovdq, Shape
    <3>4. CASE a.t = "mem" /\ b.t = "xmm"
      BY <2>0, <3>4 DEF ParseMovdq, Shape
    <3>5. CASE a.t = "xmm" /\ b.t = "xmm"
      <4>1. CASE m = "movq"
        BY <2>0, <3>5, <4>1 DEF ParseMovdq, Shape
      <4>2. CASE m # "movq"
        BY <3>5, <4>2 DEF ParseMovdq, Shape
      <4> QED
        BY <4>1, <4>2
    <3> QED
      BY <3>1, <3>2, <3>3, <3>4, <3>5 DEF ParseMovdq, Shape
  <2> HIDE DEF q
  <2>3. /\ ~HasImm(Error)
        /\ ~HasImm(Sse(p1, op1, Wide(b), a.n, b))
        /\ ~HasImm(Sse(p1, op1, q, a.n, b))
        /\ ~HasImm(Sse(p1, op2, Wide(a), b.n, a))
        /\ ~HasImm(Sse(p1, op2, q, b.n, a))
        /\ ~HasImm(Sse(p2, op2, FALSE, a.n, b))
    BY NoImmForms, Zenon
  <2>4. ~HasImm(ParseMovdq(m, a, b))
    BY <2>2, <2>3, Zenon
  <2> QED
    BY <2>1, <2>4, Zenon
<1>11. m \notin SseNames
  <2>1. m \in SseNames => ParseTwo(m, a, b) = ParseSse(m, a, b)
    BY Dispatch
  <2> DEFINE p == SsePrefix(m)
  <2>2. \/ ParseSse(m, a, b) = Error
        \/ ParseSse(m, a, b) = Sse(p, SseTable[m][2], FALSE, a.n, b)
        \/ ParseSse(m, a, b) = Sse(p, SseTable[m][2], Wide(b), a.n, b)
        \/ ParseSse(m, a, b) = Sse(p, SseTable[m][2], Wide(a), a.n, b)
        \/ ParseSse(m, a, b) = Sse(p, SseTable[m][3], FALSE, b.n, a)
    BY DEF ParseSse, SsePrefix, Shape
  <2> HIDE DEF p
  <2> QED
    BY <2>1, <2>2, NoImmForms
<1>12. m \in GeneralNames \cup ShiftNames \cup Movx \cup {"movd", "movq"} \cup SseNames
  BY Dispatch, NoImmForms
<1> QED
  BY <1>2, <1>3, <1>5, <1>6, <1>7, <1>8, <1>9, <1>10, <1>11, <1>12 DEF GeneralNames

\* An accepted instruction has one operand or two, or fixed bytes.
LEMMA ParsedLengths ==
  ASSUME NEW i \in Instruction, Accepted(i), i.m \notin FixedNames
  PROVE  Len(i.ops) \in {1, 2}
<1>1. Parse(i) # Error
  BY AcceptedParses
<1>2. i.m \notin DOMAIN Fixed
  BY Families
<1>3. ~(\E j \in DOMAIN i.ops : ~BaseOk(i.ops[j]))
  BY <1>1, <1>2, Zenon DEF Parse
<1>4. Parse(i) = CASE Len(i.ops) = 1 -> ParseOne(i.m, i.ops[1])
                   [] Len(i.ops) = 2 -> ParseTwo(i.m, i.ops[1], i.ops[2])
                   [] OTHER -> Error
  BY <1>2, <1>3, Zenon DEF Parse
<1> QED
  BY <1>1, <1>4

\* All instructions of two operands.
LEMMA TwoRight ==
  ASSUME NEW i, NEW a, NEW b, IsTwo(i, a, b), i.m \notin FixedNames, Accepted(i)
  PROVE  Right(i)
<1>1. i.m \in GeneralNames \cup ShiftNames \cup Movx \cup {"movd", "movq"} \cup SseNames
  BY ParsedTwo, Dispatch
<1>2. CASE i.m \in GeneralNames
  <2>1. i.m \in AluNames \/ i.m = "mov" \/ i.m = "test" \/ i.m = "xchg" \/ i.m = "lea" \/ i.m = "imul"
    BY <1>2 DEF GeneralNames
  <2> QED
    BY <2>1, AluRight, MovRight, TestRight, XchgRight, LeaRight, ImulRight
<1> QED
  BY <1>1, <1>2, ShiftRight, MovxRight, MovdqRight, SseRight

\* All instructions of one operand.
LEMMA OneRight ==
  ASSUME NEW i, NEW a, IsOne(i, a), i.m \notin FixedNames, Accepted(i)
  PROVE  Right(i)
<1>1. i.m \in UnaryNames \/ i.m \in {"push", "pop"}
  BY ParsedOne DEF OneNames
<1> QED
  BY <1>1, UnaryRight, PushPopRight

\* All instructions.
LEMMA AllRight ==
  ASSUME NEW i \in Instruction, Accepted(i)
  PROVE  Right(i)
<1>1. CASE i.m \in FixedNames
  BY <1>1, FixedRight
<1>2. CASE i.m \notin FixedNames /\ Len(i.ops) = 1
  BY <1>2, OneOperand, OneRight
<1>3. CASE i.m \notin FixedNames /\ Len(i.ops) = 2
  BY <1>3, TwoOperands, TwoRight
<1> QED
  BY <1>1, <1>2, <1>3, ParsedLengths

\* The length of an instruction of two operands.
LEMMA TwoLength ==
  ASSUME NEW i, NEW a, NEW b, IsTwo(i, a, b), i.m \notin FixedNames, Accepted(i), HasImm(Parse(i))
  PROVE  Len(Encode(i)) = Size(Parse(i))
<1>1. /\ BaseOk(a) /\ Parse(i) = ParseTwo(i.m, a, b)
      /\ a \in Operand /\ b \in Operand /\ i.ops[2] = b
  BY ParsedTwo DEF IsTwo
<1>2. ImmOfTwo(Parse(i), a, b)
  BY <1>1, ImmForms
<1>3. b.k = "num" /\ Encode(i) = Build(Parse(i), b.v)
  BY <1>1, Zenon DEF Encode, Accepted
<1>4. b.v \in Values
  BY <1>1, <1>2, <1>3, OperandKinds DEF ImmOfTwo
<1>5. Size(Parse(i)) = Len(Build(Parse(i), Zero64))
  BY DEF Size
<1>6. CASE a.t = "reg" /\ Parse(i) = MovRIForm(a.n, a.s)
  <2>1. a.n \in RegNum /\ a.s \in {4, 8}
    BY <1>1, <1>6, OperandKinds
  <2>2. a.s = 8 \/ ImmFits(b.v, 4)
    BY <1>1, <1>6, MovRIAccepted DEF MovRIForm
  <2> QED
    BY <1>3, <1>4, <1>5, <1>6, <2>1, <2>2, MovRILength DEF LengthKept
<1>7. ASSUME a.t \in {"reg", "mem"}, NEW op \in Nat, NEW digit \in 0..7, NEW width \in {1, 4},
             Parse(i) = RmIForm(op, digit, Wide(a), Rm(a), width)
      PROVE  Len(Encode(i)) = Size(Parse(i))
  <2>1. width \in Nat /\ width > 0 /\ Wide(a) \in BOOLEAN
    BY DEF Wide
  <2>2. RmOk(Rm(a)) /\ ImmFits(b.v, width)
    BY <1>1, <1>7, <2>1, RmIAccepted
  <2>3. Rm(a) \in RmForm
    BY <1>1, <1>7, <2>2, RmOf
  <2>4. LengthKept(RmIForm(op, digit, Wide(a), Rm(a), width), b.v)
    BY <1>4, <2>1, <2>2, <2>3, RmILength
  <2> QED
    BY <1>3, <1>5, <1>7, <2>4 DEF LengthKept
<1> QED
  BY <1>2, <1>6, <1>7 DEF ImmOfTwo

\* The length of all instructions.
LEMMA AllLength ==
  ASSUME NEW i \in Instruction, Accepted(i)
  PROVE  Len(Encode(i)) = Size(Parse(i))
<1>1. CASE ~HasImm(Parse(i))
  BY <1>1, Zenon DEF Encode, Size
<1>2. CASE HasImm(Parse(i))
  <2>1. i.m \notin FixedNames
    <3>1. ASSUME i.m \in FixedNames PROVE FALSE
      <4>1. Parse(i) = [form |-> "Raw", bytes |-> Fixed[i.m]]
        BY <3>1, Families, Zenon DEF Parse
      <4> QED
        BY <1>2, <4>1 DEF HasImm
    <3> QED
      BY <3>1
  <2>2. CASE Len(i.ops) = 1
    <3>1. PICK a : IsOne(i, a)
      BY <2>2, OneOperand
    <3>2. \/ Parse(i) = ParseUnary(i.m, a)
          \/ Parse(i) = ParsePushPop(i.m, a)
      BY <2>1, <3>1, ParsedOne DEF OneNames
    <3>3. ~HasImm(ParseUnary(i.m, a))
      BY NoImmForms DEF ParseUnary
    <3>4. ~HasImm(ParsePushPop(i.m, a))
      BY NoImmForms DEF ParsePushPop, HasImm
    <3> QED
      BY <1>2, <3>2, <3>3, <3>4
  <2>3. CASE Len(i.ops) = 2
    BY <1>2, <2>1, <2>3, TwoOperands, TwoLength
  <2> QED
    BY <2>1, <2>2, <2>3, ParsedLengths
<1> QED
  BY <1>1, <1>2

\* Encoding!MeansWhatIsWritten, for every instruction: any mnemonic, any number of operands,
\* any register, immediate and address of any number of terms. What asm_x86 accepts is what
\* the processor executes, but for exactly the nine exceptions, and Insn::size is the length
\* of what Insn::build writes.
THEOREM EncoderIsRight ==
  ASSUME insn \in Instruction
  PROVE  MeansWhatIsWritten
  BY AllRight, AllLength, Zenon DEF MeansWhatIsWritten, Right
=============================================================================
