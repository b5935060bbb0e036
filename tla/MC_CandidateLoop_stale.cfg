CONSTANTS
  Stray = Stray
  StrayDir <- Stray
  NoDir = NoDir
  None <- NoDir
  Ids <- MCIds
  CompleteIds <- MCCompleteIds
  Readable <- MCReadableGone
  CurrentInit <- MCCurrentInit
  MaxRuns <- MCMaxRuns
  UnlinkCanFail = TRUE
SPECIFICATION Spec
\* The link may start absent, at 5, or at a directory that is gone, and
\* scr_file_unlink may fail; the loop may then never return, so only
\* safety is checked here.
CHECK_DEADLOCK FALSE
INVARIANTS
  SuccessCurrentUnlessStale
  LinkFollowInv
