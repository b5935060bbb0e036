--------------------------- MODULE MC_ContainerRead ---------------------------
(* Three segments, out of key order in no way that matters to the code but *)
(* to the sort: keys 0, 3 and 5, the middle one empty, the first longer     *)
(* than the buffer so that the while loop takes two passes.                *)
EXTENDS ContainerRead, TLC, SequencesExt

MCSegKeys == {0, 3, 5}
MCSegLength == (0 :> 3) @@ (3 :> 0) @@ (5 :> 1)
MCBufSize == 2
\* Any value above every count serves: only ULong(-1) < count matters.
MCULongMax == 1000000

\* Expected, the bytes in file order, is the concatenation of the segments
\* in the order scr_hash_sort_int(segments, ASCENDING) gives their keys.
ASSUME ExpectedIsSortedConcat ==
  LET order == SetToSortSeq(SegKeys, <)
  IN  Expected = FlattenSeq([n \in 1 .. Len(order) |-> GoodSeg(order[n])])

====
