---------------------------- MODULE ScanPrecision ----------------------------
(***************************************************************************)
(* The comparison of integer values in the searches: compare works on the  *)
(* value read now, as an i128, and on Match.last, an f64; compare_pair, of *)
(* the unknown-value search, works on the bytes of the snapshot. An f64 is *)
(* an integer rounded to a mantissa of MANTISSA bits (53 in the code),     *)
(* half to even; a value type has WIDTH bits (64 in the code).             *)
(*                                                                         *)
(* One match is followed through a first scan and any number of next scans *)
(* while the process writes it.                                            *)
(***************************************************************************)
EXTENDS Integers

CONSTANTS WIDTH, MANTISSA

ASSUME PrecisionAssumption == MANTISSA \in Nat \ {0} /\ WIDTH \in Nat /\ MANTISSA <= WIDTH

Value == 0..(2^WIDTH - 1)

ValueKind    == {"Exact", "BiggerThan", "SmallerThan", "Between"}
RelativeKind == {"Changed", "Unchanged", "Increased", "Decreased"}

VARIABLES
  now,      (* what the address holds                                      *)
  seen,     (* history: what it held at the last scan                      *)
  last,     (* Match.last                                                  *)
  source,   (* what the next scan compares with: "match" or "snapshot"     *)
  verdict   (* outcome of the last next scan and what it was asked         *)

prVars == <<now, seen, last, source, verdict>>

\* The distance between neighbouring doubles at n: the least power of two of which n is
\* less than 2^MANTISSA times.
Powers  == {2^k : k \in 0..WIDTH}
Ulp(n) == CHOOSE u \in Powers : /\ n < u * 2^MANTISSA
                               /\ \A w \in Powers : n < w * 2^MANTISSA => u <= w

\* A plausible bug: the conversion cuts instead of rounding.
AsF64Truncated(n) == (n \div Ulp(n)) * Ulp(n)

\* ValueType::read_f64: the conversion of an integer to f64.
AsF64(n) ==
  LET u     == Ulp(n)
      below == (n \div u) * u
      rest  == n - below
  IN IF 2 * rest < u \/ (2 * rest = u /\ (n \div u) % 2 = 0) THEN below ELSE below + u

\* The relation each kind stands for.
Holds(kind, v, prev, t1, t2) ==
  \/ kind = "Exact"       /\ v = t1
  \/ kind = "BiggerThan"  /\ v > t1
  \/ kind = "SmallerThan" /\ v < t1
  \/ kind = "Between"     /\ t1 <= v /\ v <= t2
  \/ kind = "Changed"     /\ v # prev
  \/ kind = "Unchanged"   /\ v = prev
  \/ kind = "Increased"   /\ v > prev
  \/ kind = "Decreased"   /\ v < prev

\* A plausible bug: integers are compared as doubles throughout.
CompareAsF64(kind, v, t1, t2) == Holds(kind, AsF64(v), last, AsF64(t1), AsF64(t2))

\* compare: the new value and the targets are exact, the previous one is last.
Compare(kind, v, t1, t2) == Holds(kind, v, last, t1, t2)

\* compare_pair: everything is exact, the old value is in the snapshot.
ComparePair(kind, v, t1, t2) == Holds(kind, v, seen, t1, t2)

\* What a match remembers of the value it was found or kept with.
Remembered(v) == AsF64(v)

NoVerdict == [kind |-> "none", keep |-> TRUE, right |-> TRUE, exact |-> TRUE, old |-> 0]

\* first_scan_job stores the value as f64; unknown_first_job keeps the bytes.
PrInit ==
  /\ now \in Value
  /\ seen = now
  /\ source \in {"match", "snapshot"}
  /\ last = IF source = "match" THEN Remembered(now) ELSE 0
  /\ verdict = NoVerdict

ProcessWrites(v) ==
  /\ verdict.keep
  /\ now' = v
  /\ verdict' = NoVerdict
  /\ UNCHANGED <<seen, last, source>>

\* next_scan_job, or unknown_next_job when there is a snapshot; a match that is
\* kept remembers the value it was kept with.
NextScan(kind, t1, t2) ==
  /\ verdict.keep
  /\ LET keep == IF source = "snapshot" THEN ComparePair(kind, now, t1, t2)
                 ELSE Compare(kind, now, t1, t2)
     IN /\ verdict' = [kind |-> kind, keep |-> keep,
                       right |-> (keep <=> Holds(kind, now, seen, t1, t2)),
                       exact |-> (source = "snapshot" \/ last = seen),
                       old |-> seen]
        /\ last' = IF keep THEN Remembered(now) ELSE last
  /\ seen' = now
  /\ source' = "match"
  /\ UNCHANGED now

PrNext ==
  \/ \E v \in Value : ProcessWrites(v)
  \/ \E kind \in ValueKind \ {"Between"}, t1 \in Value : NextScan(kind, t1, t1)
  \/ \E t1 \in Value : \E t2 \in t1..(2^WIDTH - 1) : NextScan("Between", t1, t2)
  \/ \E kind \in RelativeKind : NextScan(kind, 0, 0)

PrSpec == PrInit /\ [][PrNext]_prVars

-----------------------------------------------------------------------------
\* A comparison with a number is exact on the whole width, and so is a
\* comparison with the previous value when that value is a double: small
\* integers, and every value a snapshot holds.
ExactWhenRepresentable ==
  (verdict.kind \in ValueKind \/ verdict.exact) => verdict.right

\* A rounded previous value misjudges only what stayed near it: a scan that went
\* wrong compared values at most half the distance of doubles apart.
ErrorIsSmall ==
  ~verdict.right => /\ 2 * (now - verdict.old) <= Ulp(verdict.old)
                    /\ 2 * (verdict.old - now) <= Ulp(verdict.old)

\* "Inteiros de 64 bits comparados com precisao total (sem perda de f64)": every
\* verdict is the one the integers give. Match.last is an f64.
FullPrecision == verdict.right
=============================================================================
