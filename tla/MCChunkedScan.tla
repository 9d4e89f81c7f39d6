---------------------------- MODULE MCChunkedScan ----------------------------
(* Instances of ChunkedScan for TLC: a page of two or four bytes, a block of *)
(* two pages (1 MiB is a whole number of pages too), a region that is not a  *)
(* whole number of blocks.                                                   *)
EXTENDS ChunkedScan

AnyHole    == SUBSET (0..(PAGES - 1))
Everything == {Offsets}

\* Two matches at most, unless every item is one: which of two is told again, or lost,
\* depends on the block they share.
Near(h)    == \A x, y \in h : x - y < CHUNK
FewHits    == {h \in {{x, y} : x, y \in Offsets} : Near(h)} \cup {{}} \cup Everything
=============================================================================
