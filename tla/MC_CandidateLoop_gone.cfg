CONSTANTS
  Stray = Stray
  StrayDir <- Stray
  NoDir = NoDir
  None <- NoDir
  Ids <- MCIds
  CompleteIds <- MCCompleteIds
  Readable <- MCReadableGone
  CurrentInit <- MCCurrentGone
  MaxRuns <- MCMaxRuns
  UnlinkCanFail = FALSE
SPECIFICATION Spec
\* The "current" link names a directory that is gone; expected: the fetch
\* of 9 succeeds but symlink() finds the stale link in place, so "current"
\* does not name what was fetched.
CHECK_DEADLOCK FALSE
INVARIANT
  SuccessPointsCurrent
