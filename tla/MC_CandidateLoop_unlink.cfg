CONSTANTS
  Stray = Stray
  StrayDir <- Stray
  NoDir = NoDir
  None <- NoDir
  Ids <- MCIds
  CompleteIds <- MCCompleteIds
  Readable <- MCReadable
  CurrentInit <- MCCurrentInit
  MaxRuns <- MCMaxRuns
  UnlinkCanFail = TRUE
SPECIFICATION Spec
\* scr_file_unlink may fail; expected: a run that keeps following the
\* link to the same failing checkpoint never returns.
CHECK_DEADLOCK FALSE
PROPERTY
  FetchSyncReturns
