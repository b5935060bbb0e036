--------------------------- MODULE MC_CandidateLoop ---------------------------
(* Three checkpoints in the index: 9 complete but its directory gone, 7    *)
(* incomplete, 5 complete; the link may start absent, at 5 or at a         *)
(* directory the index does not know; three job runs.                      *)
EXTENDS CandidateLoop

CONSTANTS Stray, NoDir

MCIds == {5, 7, 9}
MCCompleteIds == {5, 9}
MCReadable == {5, 7, Stray}
MCCurrentInit == {NoDir, 5, Stray}
MCMaxRuns == 3

(* The link names a directory that is gone (it was purged, or never      *)
(* flushed completely) and is not in the index; 9 and 5 are readable.     *)
MCReadableGone == {5, 9}
MCCurrentGone == {Stray}
=============================================================================
