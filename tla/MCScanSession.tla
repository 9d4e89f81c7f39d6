---------------------------- MODULE MCScanSession ----------------------------
(* Instances of ScanSession for TLC.                                        *)
EXTENDS SearchHistory

CONSTANT p1

Kinds(K, v) == {[kind |-> k, t1 |-> v, t2 |-> v] : k \in K}

\* One comparison of each way a worker uses the previous value.
SomeComparisons == Kinds({"Exact", "Changed", "Text"}, 1)
=============================================================================
